---- MODULE Spec2Model ----
(***************************************************************************)
(* A model of the diagram generator's resilience utilities                 *)
(* (backend/utils/retry.py: RetryConfig, CircuitBreaker,                   *)
(* with_circuit_breaker) and of the generation/repair loop                 *)
(* (backend/agents/diagram_agent.py: DiagramAgent.run_agent).              *)
(*                                                                         *)
(* Times and delays are integers (one unit is the smallest interval the    *)
(* model distinguishes).  A text is a sequence of lines; <<>> is the empty *)
(* string.  Lines are drawn from a small alphabet, and the string tests    *)
(* the code makes on a line (startswith, in, lower) are tables over it.    *)
(***************************************************************************)
EXTENDS Integers, Sequences, FiniteSets, TLC

(***************************************************************************)
(* Bounds of the model.                                                    *)
(***************************************************************************)
MaxTime == 4
MaxFailures == 3
MaxThreshold == 2
MaxTimeout == 2
NumTasks == 2
MaxIterations == 2
MaxAttemptNo == 4
MaxBaseDelay == 2
MaxMaxDelay == 4
MaxJitter == 1
MaxAttempts == 3
MaxTtl == 1

VARIABLES
    \* ---- CircuitBreaker and the calls made through with_circuit_breaker
    breaker,        \* the shared CircuitBreaker object
    now,            \* asyncio.get_event_loop().time()
    cb_pc,          \* per task: position inside with_circuit_breaker.wrapper
    streak,         \* history: failures recorded in a row since a Closed, zero-failure breaker
    \* ---- RetryConfig
    config,         \* a RetryConfig
    delay,          \* the value returned by the last get_delay call
    retry,          \* one call through with_retries / with_sync_retries: the wrapper's frame
    \* ---- DiagramAgent.run_agent
    input_data,     \* DiagramAgentInput with its options
    state,          \* DiagramAgentState
    attempts,       \* the local counter of run_agent's fix loop
    pc,             \* position of the run
    output,         \* what run_agent returned (or how it ended)
    storage,        \* calls made on the storage collaborator, in order
    backend_calls,  \* history: number of ollama.generate calls issued by the run
    validations,    \* history: for each validation of the run, whether it reported no errors
    backend_failures, \* history: number of backend calls of the run that failed
    candidates,     \* history: the code held after each validation of the run
    cache,          \* the DiagramCache: the entry files of its directory, by cache key
    \* ---- DiagramValidator
    diagram_code,   \* the diagram code at hand
    family,         \* the diagram_type argument
    validation,     \* what the last validate call returned
    \* ---- DiagramCache
    requests,       \* the requests of the two callers of the cache
    stored,         \* history: per cache key the last set that nothing removed
    \* ---- the operation performed by the last step
    op

breakerVars == <<breaker, now, cb_pc, streak>>
retryVars == <<config, delay, retry>>
agentVars == <<input_data, state, attempts, pc, output, storage, backend_calls, validations,
              backend_failures, candidates, cache>>
validatorVars == <<diagram_code, family, validation>>
cacheVars == <<requests, stored>>
vars == <<breaker, now, cb_pc, streak, config, delay, retry, input_data, state, attempts,
          pc, output, storage, backend_calls, validations, backend_failures, candidates, cache,
          diagram_code, family, validation, requests, stored, op>>

Min(a, b) == IF a < b THEN a ELSE b
Max(a, b) == IF a > b THEN a ELSE b

RECURSIVE Pow2(_)
Pow2(n) == IF n <= 0 THEN 1 ELSE 2 * Pow2(n - 1)

(***************************************************************************)
(* retry.py: RetryConfig                                                   *)
(***************************************************************************)
\* exceptions is the set of the names of the exception types of the tuple
RetryConfig(max_attempts, base_delay, max_delay, exponential_backoff, exceptions, jitter) ==
    [max_attempts |-> max_attempts, base_delay |-> base_delay, max_delay |-> max_delay,
     exponential_backoff |-> exponential_backoff, exceptions |-> exceptions, jitter |-> jitter]

\* get_delay taking the attempt number as 0-based
get_delay_zero_based(c, attempt, jitter_amount) ==
    LET d0 == IF ~c.exponential_backoff
              THEN c.base_delay
              ELSE Min(c.base_delay * Pow2(attempt), c.max_delay)
    IN IF c.jitter > 0 THEN Max(0, d0 + jitter_amount) ELSE d0

\* get_delay(attempt); jitter_amount is the value random.uniform(-jitter, jitter) drew
get_delay(c, attempt, jitter_amount) ==
    LET d0 == IF ~c.exponential_backoff
              THEN c.base_delay
              ELSE Min(c.base_delay * Pow2(attempt - 1), c.max_delay)
    IN IF c.jitter > 0 THEN Max(0, d0 + jitter_amount) ELSE d0

(***************************************************************************)
(* retry.py: with_retries.wrapper and with_sync_retries.wrapper, which are *)
(* the same code statement for statement but for the sleep (asyncio.sleep  *)
(* awaited in one, time.sleep called in the other).                        *)
(***************************************************************************)
\* the exception types the wrapped function raises; all derive from Exception
ExceptionTypes == {"ConnectionError", "ValueError"}

\* the except clause catching every exception
is_retryable_any(c, e) == c.exceptions # {}

\* except config.exceptions as e: does the clause catch an exception of type e
is_retryable(c, e) == "Exception" \in c.exceptions \/ e \in c.exceptions

\* the frame of wrapper before the call
NoCall ==
    [pc |-> "idle", kind |-> "none", attempt |-> 0, invocations |-> 0, sleeps |-> 0,
     last_error |-> "None", outcome |-> "none"]

\* for attempt in range(1, config.max_attempts + 1): the next iteration calls func,
\* the end of the loop raises last_error or Exception("Maximum retry attempts exceeded")
loop_enter(c, r, attempt) ==
    IF attempt <= c.max_attempts
    THEN [r EXCEPT !.pc = "calling", !.attempt = attempt, !.invocations = @ + 1]
    ELSE [r EXCEPT !.pc = "raised",
                   !.outcome = IF r.last_error # "None" THEN r.last_error
                               ELSE "Maximum retry attempts exceeded"]

\* the wrapped function raised e in attempt r.attempt
on_raise(c, r, e) ==
    IF ~is_retryable(c, e)
    THEN [r EXCEPT !.pc = "raised", !.outcome = e]
    ELSE IF r.attempt < c.max_attempts
         THEN [r EXCEPT !.pc = "sleeping", !.last_error = e, !.sleeps = @ + 1]
         ELSE loop_enter(c, [r EXCEPT !.last_error = e], r.attempt + 1)

(***************************************************************************)
(* retry.py: CircuitBreaker                                                *)
(***************************************************************************)
CircuitBreaker(failure_threshold, reset_timeout, half_open_timeout) ==
    [failure_threshold |-> failure_threshold, reset_timeout |-> reset_timeout,
     half_open_timeout |-> half_open_timeout,
     failures |-> 0, last_failure_time |-> 0, state |-> "CLOSED"]

\* record_failure opening the circuit only above the threshold
record_failure_above(b, current_time) ==
    LET kept == IF current_time - b.last_failure_time > b.reset_timeout THEN 0 ELSE b.failures
        n == kept + 1
    IN [b EXCEPT !.failures = n,
                 !.last_failure_time = current_time,
                 !.state = IF n > b.failure_threshold THEN "OPEN" ELSE @]

\* record_failure resetting the count already at a gap of exactly reset_timeout
record_failure_early_reset(b, current_time) ==
    LET kept == IF current_time - b.last_failure_time >= b.reset_timeout THEN 0 ELSE b.failures
        n == kept + 1
    IN [b EXCEPT !.failures = n,
                 !.last_failure_time = current_time,
                 !.state = IF n >= b.failure_threshold THEN "OPEN" ELSE @]

record_failure(b, current_time) ==
    LET kept == IF current_time - b.last_failure_time > b.reset_timeout THEN 0 ELSE b.failures
        n == kept + 1
    IN [b EXCEPT !.failures = n,
                 !.last_failure_time = current_time,
                 !.state = IF n >= b.failure_threshold THEN "OPEN" ELSE @]

\* record_success closing the circuit with the failure count left as it was
record_success_keeps_count(b) == [b EXCEPT !.state = "CLOSED"]

\* record_success(): the breaker it leaves
record_success(b) == [b EXCEPT !.failures = 0, !.state = "CLOSED"]

\* can_execute waiting for reset_timeout instead of half_open_timeout
can_execute_reset_timeout(b, current_time) ==
    IF b.state = "CLOSED"
    THEN [ret |-> TRUE, breaker |-> b]
    ELSE IF current_time - b.last_failure_time > b.reset_timeout
         THEN [ret |-> TRUE, breaker |-> [b EXCEPT !.state = "HALF_OPEN"]]
         ELSE [ret |-> FALSE, breaker |-> b]

\* can_execute(): the value it returns and the breaker it leaves
can_execute(b, current_time) ==
    IF b.state = "CLOSED"
    THEN [ret |-> TRUE, breaker |-> b]
    ELSE IF current_time - b.last_failure_time > b.half_open_timeout
         THEN [ret |-> TRUE, breaker |-> [b EXCEPT !.state = "HALF_OPEN"]]
         ELSE [ret |-> FALSE, breaker |-> b]

\* wrapper with the admission check inside its try block: a refusal is recorded
\* as a failure
wrapper_enter_in_try(b, current_time) ==
    LET r == can_execute(b, current_time)
    IN IF ~r.ret
       THEN [raised |-> "Circuit breaker is open", invoked |-> FALSE,
             breaker |-> record_failure(r.breaker, current_time)]
       ELSE [raised |-> "", invoked |-> TRUE, breaker |-> r.breaker]

(***************************************************************************)
(* retry.py: with_circuit_breaker.wrapper, up to the await of the wrapped  *)
(* function: the admission check, and the refusal it raises.               *)
(***************************************************************************)
wrapper_enter(b, current_time) ==
    LET r == can_execute(b, current_time)
    IN IF ~r.ret
       THEN [raised |-> "Circuit breaker is open", invoked |-> FALSE, breaker |-> r.breaker]
       ELSE [raised |-> "", invoked |-> TRUE, breaker |-> r.breaker]

\* the wrapped function returned: record_success, return the result
wrapper_return(b) == record_success(b)

\* the wrapper dropping the failure of a call that ends after the circuit has opened
wrapper_except_unless_open(b, current_time) ==
    IF b.state = "OPEN" THEN b ELSE record_failure(b, current_time)

\* the wrapped function raised: record_failure, re-raise
wrapper_except(b, current_time) == record_failure(b, current_time)

Tasks == 1 .. NumTasks

(***************************************************************************)
(* History of the breaker: the number of record_failure calls made in a    *)
(* row, with no record_success in between and no gap longer than           *)
(* reset_timeout between two of them, counted from a CLOSED breaker with   *)
(* zero failures; 0 when no such run is in progress.                       *)
(***************************************************************************)
StreakAfterFailure(b, current_time, s) ==
    IF s > 0 /\ current_time - b.last_failure_time <= b.reset_timeout
    THEN s + 1
    ELSE IF b.state = "CLOSED" /\ b.failures = 0 THEN 1 ELSE 0

\* The operation of the last step: its name, an argument (for record_failure the
\* failure count it found, for get_delay and a fix the attempt number), what it
\* returned or raised, and the breaker state it found.
NoOp == [name |-> "none", arg |-> 0, ret |-> "none", before |-> "CLOSED"]
Op(name, arg, ret) == [name |-> name, arg |-> arg, ret |-> ret, before |-> breaker.state]
BoolStr(x) == IF x THEN "true" ELSE "false"

(***************************************************************************)
(* Breaker steps.  Each is one synchronous stretch of code: nothing is     *)
(* awaited inside can_execute, record_success or record_failure, nor       *)
(* between the admission check and the call of the wrapped function.       *)
(***************************************************************************)
\* time passes
Tick ==
    /\ now < MaxTime
    /\ now' = now + 1
    /\ op' = Op("tick", 0, "none")
    /\ UNCHANGED <<breaker, cb_pc, streak>>
    /\ UNCHANGED <<retryVars, agentVars, validatorVars, cacheVars>>

\* a direct call of breaker.can_execute()
CanExecute ==
    LET r == can_execute(breaker, now)
    IN /\ breaker' = r.breaker
       /\ op' = Op("can_execute", 0, BoolStr(r.ret))
       /\ UNCHANGED <<now, cb_pc, streak>>
       /\ UNCHANGED <<retryVars, agentVars, validatorVars, cacheVars>>

\* a direct call of breaker.record_success()
RecordSuccess ==
    /\ breaker' = record_success(breaker)
    /\ streak' = 0
    /\ op' = Op("record_success", 0, "none")
    /\ UNCHANGED <<now, cb_pc>>
    /\ UNCHANGED <<retryVars, agentVars, validatorVars, cacheVars>>

\* a direct call of breaker.record_failure()
RecordFailure ==
    /\ breaker.failures < MaxFailures
    /\ breaker' = record_failure(breaker, now)
    /\ streak' = StreakAfterFailure(breaker, now, streak)
    /\ op' = Op("record_failure", breaker.failures, "none")
    /\ UNCHANGED <<now, cb_pc>>
    /\ UNCHANGED <<retryVars, agentVars, validatorVars, cacheVars>>

\* task t calls a function decorated with with_circuit_breaker(breaker)
CbCall(t) ==
    /\ cb_pc[t] = "idle"
    /\ LET r == wrapper_enter(breaker, now)
       IN /\ breaker' = r.breaker
          /\ cb_pc' = [cb_pc EXCEPT ![t] = IF r.invoked THEN "running" ELSE "idle"]
          /\ op' = Op("cb_call", t, IF r.invoked THEN "invoked" ELSE r.raised)
    /\ UNCHANGED <<now, streak>>
    /\ UNCHANGED <<retryVars, agentVars, validatorVars, cacheVars>>

\* the wrapped function of task t returns
CbReturn(t) ==
    /\ cb_pc[t] = "running"
    /\ breaker' = wrapper_return(breaker)
    /\ streak' = 0
    /\ cb_pc' = [cb_pc EXCEPT ![t] = "idle"]
    /\ op' = Op("cb_return", t, "result")
    /\ UNCHANGED now
    /\ UNCHANGED <<retryVars, agentVars, validatorVars, cacheVars>>

\* the wrapped function of task t raises
CbRaise(t) ==
    /\ cb_pc[t] = "running"
    /\ breaker.failures < MaxFailures
    /\ breaker' = wrapper_except(breaker, now)
    /\ streak' = StreakAfterFailure(breaker, now, streak)
    /\ cb_pc' = [cb_pc EXCEPT ![t] = "idle"]
    /\ op' = Op("cb_raise", breaker.failures, "raised")
    /\ UNCHANGED now
    /\ UNCHANGED <<retryVars, agentVars, validatorVars, cacheVars>>

NextBreaker ==
    \/ Tick
    \/ CanExecute
    \/ RecordSuccess
    \/ RecordFailure
    \/ \E t \in Tasks : CbCall(t)
    \/ \E t \in Tasks : CbReturn(t)
    \/ \E t \in Tasks : CbRaise(t)

(***************************************************************************)
(* Texts.  A text is the sequence of its lines and <<>> is "".  The lines  *)
(* of the model and what the code's string tests say of each of them:      *)
(*   "[fence]mermaid", "[fence]"   fence lines ([fence] is three backticks) *)
(*   "graph TD"              a Mermaid declaration                         *)
(*   "A-->B", "A->B"         a connection, and a mistyped one              *)
(*   "%% note"               a Mermaid comment line                        *)
(*   "Here is the diagram"   prose around the diagram                      *)
(*   "@startuml", "class A", "@enduml"   a PlantUML class diagram          *)
(*   "mermaid"               what is left of "[fence]mermaid" without backticks *)
(*   ""                      an empty line                                 *)
(***************************************************************************)
Split(text) == IF text = <<>> THEN <<"">> ELSE text
Join(lines) == IF lines = <<"">> THEN <<>> ELSE lines

RECURSIVE PickIdx(_, _, _)
\* the lines of s at the indices in I, from index k on, in order
PickIdx(s, I, k) ==
    IF k > Len(s) THEN <<>>
    ELSE (IF k \in I THEN <<s[k]>> ELSE <<>>) \o PickIdx(s, I, k + 1)

RECURSIVE DropLeadingEmpty(_)
DropLeadingEmpty(s) ==
    IF s # <<>> /\ Head(s) = "" THEN DropLeadingEmpty(Tail(s)) ELSE s

RECURSIVE DropTrailingEmpty(_)
DropTrailingEmpty(s) ==
    IF s # <<>> /\ s[Len(s)] = "" THEN DropTrailingEmpty(SubSeq(s, 1, Len(s) - 1)) ELSE s

\* str.strip("\n") and, no line of the model having blanks at its ends, str.strip()
Strip(text) == DropTrailingEmpty(DropLeadingEmpty(text))

\* line.startswith("[fence]"), and "[fence]" in line
StartsWithFence(line) == line \in {"[fence]mermaid", "[fence]"}
\* line.strip().startswith("%"), and "%" in line
StartsWithPercent(line) == line = "%% note"
\* line.replace(backtick, "")
RemoveBackticks(line) ==
    IF line = "[fence]mermaid" THEN "mermaid" ELSE IF line = "[fence]" THEN "" ELSE line
\* line.replace("[fence]mermaid", "").replace("[fence]plantuml", "").replace("[fence]", "")
RemoveFenceMarkers(line) == IF StartsWithFence(line) THEN "" ELSE line

FenceIdx(lines) == {i \in 1 .. Len(lines) : StartsWithFence(lines[i])}
FencesBefore(lines, i) == Cardinality({j \in FenceIdx(lines) : j < i})

(***************************************************************************)
(* diagram_agent.py: DiagramAgent._strip_comments                          *)
(***************************************************************************)
_strip_comments(code) ==
    LET lines0 == Split(code)
        \* the lines inside fenced blocks
        inside == PickIdx(lines0,
                          {i \in 1 .. Len(lines0) :
                              ~StartsWithFence(lines0[i]) /\ FencesBefore(lines0, i) % 2 = 1},
                          1)
        code1 == IF FenceIdx(lines0) # {} /\ inside # <<>> THEN Join(inside) ELSE code
        lines1 == Split(code1)
        \* full-line comments are skipped ("%" is in no other line of the model)
        processed == SelectSeq(lines1, LAMBDA l : ~StartsWithPercent(l))
        code2 == Join(processed)
        code3 == [i \in 1 .. Len(code2) |-> RemoveBackticks(code2[i])]
    IN Strip(code3)

(***************************************************************************)
(* diagram_agent.py: DiagramAgent._extract_clean_diagram_code              *)
(***************************************************************************)
is_valid_diagram_starter(line) == line \in {"graph TD", "@startuml"}

\* line.startswith(("here", "this diagram", "the diagram", "description:")) of the lowered line
IsProseStop(line) == line = "Here is the diagram"
\* line.startswith("@end")
StartsWithEnd(line) == line = "@enduml"

_extract_clean_diagram_code(raw_content) ==
    LET lines == Split(raw_content)
        fences == FenceIdx(lines)
        \* Method 1: the first closed fenced block
        f1 == CHOOSE i \in fences : \A j \in fences : i <= j
        f2 == CHOOSE i \in fences \ {f1} : \A j \in fences \ {f1} : i <= j
        \* Method 2: from the first starter line to the first stop line
        starters == {i \in 1 .. Len(lines) : is_valid_diagram_starter(lines[i])}
        start_idx == CHOOSE i \in starters : \A j \in starters : i <= j
        stops == {i \in (start_idx + 1) .. Len(lines) :
                     \/ IsProseStop(lines[i])
                     \/ StartsWithEnd(lines[i]) /\ i >= Len(lines)}
        stop == CHOOSE i \in stops : \A j \in stops : i <= j
        end_idx == IF stops = {} THEN Len(lines)
                   ELSE IF StartsWithEnd(lines[stop]) THEN stop ELSE stop - 1
    IN IF Cardinality(fences) >= 2
       THEN Join(SubSeq(lines, f1 + 1, f2 - 1))
       ELSE IF starters # {}
            THEN Strip(Join(SubSeq(lines, start_idx, end_idx)))
            ELSE Strip([i \in 1 .. Len(raw_content) |-> RemoveFenceMarkers(raw_content[i])])

(***************************************************************************)
(* Python strings.  A str is a TLA+ string, the sequence of its            *)
(* characters; positions count from 1 and 0 stands for "not found".        *)
(***************************************************************************)
\* the characters str.strip() and str.split() take for blanks, of those in the model
Whitespace == {" ", "\t", "\n"}
Char(s, i) == SubSeq(s, i, i)

\* s.startswith(prefix), s.endswith(suffix)
str_startswith(s, prefix) == Len(prefix) <= Len(s) /\ SubSeq(s, 1, Len(prefix)) = prefix
str_endswith(s, suffix) ==
    Len(suffix) <= Len(s) /\ SubSeq(s, Len(s) - Len(suffix) + 1, Len(s)) = suffix

\* the positions where sub occurs in s
Occurrences(s, sub) ==
    {i \in 1 .. Len(s) - Len(sub) + 1 : SubSeq(s, i, i + Len(sub) - 1) = sub}
\* sub in s
str_contains(s, sub) == Occurrences(s, sub) # {}
\* s.find(sub), s.rindex(sub)
str_find(s, sub) ==
    IF Occurrences(s, sub) = {} THEN 0
    ELSE CHOOSE i \in Occurrences(s, sub) : \A j \in Occurrences(s, sub) : i <= j
str_rindex(s, sub) ==
    IF Occurrences(s, sub) = {} THEN 0
    ELSE CHOOSE i \in Occurrences(s, sub) : \A j \in Occurrences(s, sub) : i >= j

RECURSIVE str_lstrip(_, _)
\* s.lstrip(chars)
str_lstrip(s, chars) ==
    IF Len(s) > 0 /\ Char(s, 1) \in chars THEN str_lstrip(SubSeq(s, 2, Len(s)), chars) ELSE s

RECURSIVE str_rstrip(_, _)
\* s.rstrip(chars)
str_rstrip(s, chars) ==
    IF Len(s) > 0 /\ Char(s, Len(s)) \in chars
    THEN str_rstrip(SubSeq(s, 1, Len(s) - 1), chars)
    ELSE s

\* s.strip()
str_strip(s) == str_rstrip(str_lstrip(s, Whitespace), Whitespace)

RECURSIVE str_split(_, _)
\* s.split(sep)
str_split(s, sep) ==
    LET i == str_find(s, sep)
    IN IF i = 0 THEN <<s>>
       ELSE <<SubSeq(s, 1, i - 1)>> \o str_split(SubSeq(s, i + Len(sep), Len(s)), sep)

RECURSIVE str_split_ws(_)
\* s.split(): the words of s
str_split_ws(s) ==
    LET t == str_lstrip(s, Whitespace)
        blanks == {i \in 1 .. Len(t) : Char(t, i) \in Whitespace}
        e == CHOOSE i \in blanks : \A j \in blanks : i <= j
    IN IF Len(t) = 0 THEN <<>>
       ELSE IF blanks = {} THEN <<t>>
            ELSE <<SubSeq(t, 1, e - 1)>> \o str_split_ws(SubSeq(t, e, Len(t)))

RECURSIVE str_join(_, _)
\* sep.join(parts)
str_join(sep, parts) ==
    IF Len(parts) = 0 THEN ""
    ELSE IF Len(parts) = 1 THEN parts[1]
         ELSE parts[1] \o sep \o str_join(sep, Tail(parts))

RECURSIVE str_replace(_, _, _)
\* s.replace(old, new), old not empty
str_replace(s, old, new) ==
    IF Len(s) = 0 THEN ""
    ELSE IF str_startswith(s, old)
         THEN new \o str_replace(SubSeq(s, Len(old) + 1, Len(s)), old, new)
         ELSE Char(s, 1) \o str_replace(SubSeq(s, 2, Len(s)), old, new)

\* the lower-case letter of each upper-case letter
lower_case ==
    LET UpperCase == "ABCDEFGHIJKLMNOPQRSTUVWXYZ"
        LowerCase == "abcdefghijklmnopqrstuvwxyz"
        at(c) == CHOOSE i \in 1 .. Len(UpperCase) : Char(UpperCase, i) = c
    IN [c \in {Char(UpperCase, i) : i \in 1 .. Len(UpperCase)} |-> Char(LowerCase, at(c))]
\* c.lower() of one character
LowerChar(c) == IF c \in DOMAIN lower_case THEN lower_case[c] ELSE c

RECURSIVE Lower(_)
\* s.lower()
Lower(s) == IF Len(s) = 0 THEN "" ELSE LowerChar(Char(s, 1)) \o Lower(SubSeq(s, 2, Len(s)))

\* float(s) does not raise ValueError, for s of digits, points and other
\* characters: an optional sign, digits with at most one point among them
is_float(s) ==
    LET Digits == {"0", "1", "2", "3", "4", "5", "6", "7", "8", "9"}
        t == str_strip(s)
        u == IF Len(t) > 0 /\ Char(t, 1) \in {"+", "-"} THEN SubSeq(t, 2, Len(t)) ELSE t
    IN /\ \E i \in 1 .. Len(u) : Char(u, i) \in Digits
       /\ \A i \in 1 .. Len(u) : Char(u, i) \in Digits \cup {"."}
       /\ Cardinality(Occurrences(u, ".")) <= 1

\* the non-empty lines of text, stripped, comment lines left out:
\* [line.strip() for line in text.split('\n')
\*     if line.strip() and not line.strip().startswith('%')]
stripped_lines(text) ==
    LET lines == str_split(text, "\n")
        kept == SelectSeq(lines, LAMBDA line :
                    str_strip(line) # "" /\ ~str_startswith(str_strip(line), "%"))
    IN [i \in 1 .. Len(kept) |-> str_strip(kept[i])]

\* any(p(x) for x in xs)
any(xs, p(_)) == \E i \in 1 .. Len(xs) : p(xs[i])

(***************************************************************************)
(* diagram_validator.py: DiagramType, ValidationResult, DiagramValidator   *)
(***************************************************************************)
\* the enum taking any string for a member
DiagramType_lenient == {"mermaid", "plantuml", "uml"}
\* the values of the enum DiagramType
DiagramType == {"mermaid", "plantuml"}

\* DiagramType.from_string: the member of that value, or None
from_string(value) == IF Lower(value) \in DiagramType THEN Lower(value) ELSE "None"

\* a diagram_type argument: a str, a member of DiagramType, or None
StrType(s) == [kind |-> "str", value |-> s]
EnumType(member) == [kind |-> "enum", value |-> member]
NoneType == [kind |-> "NoneType", value |-> "None"]

\* the result flagged valid whatever it was constructed with
ValidationResult_flagged_valid(valid, errors, suggestions) ==
    [valid |-> TRUE, errors |-> errors, suggestions |-> suggestions]

\* ValidationResult.__init__
ValidationResult(valid, errors, suggestions) ==
    [valid |-> valid, errors |-> errors, suggestions |-> suggestions]

\* an exception that leaves the validator in place of a result
Raised(e) == [valid |-> FALSE, errors |-> <<>>, suggestions |-> <<>>, raised |-> e]

\* return ValidationResult(True)
Valid == ValidationResult(TRUE, <<>>, <<>>)

\* _clean_mermaid_code
_clean_mermaid_code(code) ==
    LET lines == str_split(str_strip(code), "\n")
        first == Lower(str_strip(lines[1]))
        is_pie_chart == str_startswith(first, "pie")
        line_of(i) ==
            IF i = 1 /\ is_pie_chart /\ ~str_startswith(first, "pie title")
            THEN "pie"
            ELSE lines[i]
        \* one trailing semicolon goes, after the trailing blanks
        no_semicolon(i) ==
            LET stripped == str_rstrip(line_of(i), Whitespace)
            IN IF str_endswith(stripped, ";")
               THEN SubSeq(stripped, 1, Len(stripped) - 1)
               ELSE stripped
        no_percent(i) ==
            IF is_pie_chart /\ i > 1 /\ str_contains(no_semicolon(i), "%")
            THEN str_rstrip(no_semicolon(i), {"%"})
            ELSE no_semicolon(i)
        link_style(i) ==
            IF /\ str_contains(no_percent(i), "linkStyle")
               /\ \/ str_contains(no_percent(i), "linkStyle 0 ")
                  \/ str_contains(no_percent(i), "linkStyle 1 ")
            THEN str_replace(str_replace(no_percent(i), "linkStyle 0 ", "linkStyle default "),
                             "linkStyle 1 ", "linkStyle default ")
            ELSE no_percent(i)
    IN str_join("\n", [i \in 1 .. Len(lines) |-> link_style(i)])

valid_starters ==
    {"graph", "flowchart", "sequenceDiagram", "classDiagram", "stateDiagram", "erDiagram",
     "gantt", "pie", "mindmap"}

\* _validate_mermaid, first_word == 'sequenceDiagram'
mermaid_sequence(code) ==
    LET lines == stripped_lines(code)
        message_lines == SelectSeq(lines, LAMBDA line :
            str_contains(line, "->") \/ str_contains(line, "-->") \/ str_contains(line, ">>"))
    IN IF ~any(lines, LAMBDA line :
                  str_startswith(line, "participant ") \/ str_startswith(line, "actor "))
       THEN ValidationResult(FALSE, <<"Missing participant declarations">>,
                <<"Sequence diagrams should declare participants using 'participant' or 'actor'">>)
       ELSE IF Len(message_lines) = 0
            THEN ValidationResult(FALSE, <<"No messages defined">>,
                     <<"Add at least one message between participants using ->, -->, or >>">>)
            ELSE IF any(message_lines, LAMBDA line :
                        ~(/\ str_contains(line, ":")
                          /\ \E x \in {"->", "-->>", "->>", "-->", "-x"} : str_contains(line, x)))
                 THEN ValidationResult(FALSE, <<"Invalid message syntax">>,
                          <<"Messages should follow format: ParticipantA->ParticipantB: Message">>)
                 ELSE Valid

\* _validate_mermaid, first_word in ['graph', 'flowchart']
mermaid_flowchart(code) ==
    LET lines == stripped_lines(code)
        connections == SelectSeq(Tail(lines), LAMBDA line :
            str_contains(line, "-->") \/ str_contains(line, "---"))
        parts0(line) == str_split_ws(str_split(line, "--")[1])
        nodes == UNION { {parts0(connections[i])[k] : k \in
                            {k \in 1 .. Len(parts0(connections[i])) :
                                /\ ~str_startswith(parts0(connections[i])[k], "(")
                                /\ ~str_startswith(parts0(connections[i])[k], "[")}} :
                         i \in 1 .. Len(connections) }
    IN IF nodes = {}
       THEN ValidationResult(FALSE, <<"No nodes defined">>,
                <<"Add at least one node using [] or () syntax">>)
       ELSE IF Len(connections) = 0
            THEN ValidationResult(FALSE, <<"No connections between nodes">>,
                     <<"Connect nodes using --> or --- syntax">>)
            ELSE Valid

\* _validate_mermaid, first_word == 'classDiagram'
mermaid_class(code) ==
    LET lines == stripped_lines(code)
        classes == SelectSeq(Tail(lines), LAMBDA line : str_startswith(line, "class "))
    IN IF Len(classes) = 0
       THEN ValidationResult(FALSE, <<"No classes defined">>,
                <<"Define at least one class using 'class ClassName' syntax">>)
       ELSE Valid

\* _validate_mermaid, first_word == 'stateDiagram'
mermaid_state(code) ==
    LET lines == stripped_lines(code)
        transitions == SelectSeq(Tail(lines), LAMBDA line : str_contains(line, "-->"))
        states == UNION { {str_strip(str_split(transitions[i], "-->")[1]),
                           str_strip(str_split(transitions[i], "-->")[2])} :
                          i \in 1 .. Len(transitions) }
    IN IF any(transitions, LAMBDA line : Len(str_split(line, "-->")) < 2)
       THEN Raised("IndexError")
       ELSE IF states = {}
            THEN ValidationResult(FALSE, <<"No states defined">>,
                     <<"Define states and transitions using state --> state syntax">>)
            ELSE Valid

\* _validate_mermaid, first_word == 'erDiagram'
mermaid_er(code) ==
    LET lines == stripped_lines(code)
        relationships == SelectSeq(Tail(lines), LAMBDA line :
            str_contains(line, "|") /\ str_contains(line, "o"))
        declarations == SelectSeq(Tail(lines), LAMBDA line :
            ~(str_contains(line, "|") /\ str_contains(line, "o")) /\ str_contains(line, "{"))
        entities ==
            {str_split_ws(relationships[i])[1] : i \in 1 .. Len(relationships)} \cup
            {str_strip(str_split(declarations[i], "{")[1]) : i \in 1 .. Len(declarations)}
    IN IF entities = {}
       THEN ValidationResult(FALSE, <<"No entities defined">>,
                <<"Define at least one entity with properties">>)
       ELSE IF Len(relationships) = 0
            THEN ValidationResult(FALSE, <<"No relationships defined">>,
                     <<"Define relationships between entities using |o--o|, ||--|{, etc.">>)
            ELSE Valid

\* _validate_mermaid, first_word == 'gantt'
mermaid_gantt(code) ==
    LET lines == stripped_lines(code)
        has_date_format == any(lines, LAMBDA line : str_contains(line, "dateFormat"))
        has_tasks == any(Tail(lines), LAMBDA line : str_contains(line, ":"))
    IN IF ~has_date_format
       THEN ValidationResult(FALSE, <<"Missing date format">>,
                <<"Specify date format using dateFormat directive">>)
       ELSE IF ~has_tasks
            THEN ValidationResult(FALSE, <<"No tasks defined">>,
                     <<"Add at least one task with duration">>)
            ELSE Valid

\* len(line) - len(line.lstrip())
indent_of(line) == Len(line) - Len(str_lstrip(line, Whitespace))

\* _validate_mermaid, first_word == 'mindmap'
mermaid_mindmap(code) ==
    LET lines == SelectSeq(str_split(code, "\n"), LAMBDA line :
            str_strip(line) # "" /\ ~str_startswith(str_strip(line), "%"))
        nodes == Tail(lines)
        root_level_items == SelectSeq(nodes, LAMBDA line :
            \/ indent_of(line) = 0
            \/ indent_of(line) = 2 /\ str_startswith(str_strip(line), "root"))
        prev_indent(i) == IF i = 1 THEN 0 ELSE indent_of(nodes[i - 1])
    IN IF Len(lines) < 2
       THEN ValidationResult(FALSE, <<"Mindmap must have at least one node">>,
                <<"Add at least one root node to the mindmap">>)
       ELSE IF Len(root_level_items) = 0
            THEN ValidationResult(FALSE, <<"Mindmap missing root node">>,
                     <<"Add a root level node to the mindmap">>)
            ELSE IF Len(root_level_items) > 1
                 THEN ValidationResult(FALSE, <<"Multiple root nodes detected">>,
                          <<"Mindmap must have exactly one root node. Remove or indent additional root level items">>)
                 ELSE IF \E i \in 1 .. Len(nodes) : indent_of(nodes[i]) > prev_indent(i) + 2
                      THEN ValidationResult(FALSE, <<"Invalid indentation">>,
                               <<"Each level should be indented by 2 spaces relative to its parent">>)
                      ELSE Valid

\* _validate_mermaid, first_word == 'pie'
mermaid_pie(code) ==
    LET lines == Tail(str_split(code, "\n"))
        values == SelectSeq(lines, LAMBDA line :
            /\ str_strip(line) # ""
            /\ ~str_startswith(str_strip(line), "%")
            /\ Len(str_split(str_strip(line), " ")) >= 2)
        value(line) ==
            LET parts == str_split(str_strip(line), " ")
            IN str_rstrip(str_lstrip(parts[Len(parts)], {"\""}), {"\""})
    IN IF any(values, LAMBDA line : ~is_float(value(line)))
       THEN ValidationResult(FALSE, <<"Invalid pie chart value">>,
                <<"Pie chart values must be numbers (not percentages)">>)
       ELSE Valid

\* _validate_mermaid
_validate_mermaid(code0) ==
    LET code == str_strip(code0)
        first_word == IF Len(code) = 0 THEN "" ELSE Lower(str_split_ws(code)[1])
        typed == CASE first_word = "sequenceDiagram" -> mermaid_sequence(code)
                   [] first_word \in {"graph", "flowchart"} -> mermaid_flowchart(code)
                   [] first_word = "classDiagram" -> mermaid_class(code)
                   [] first_word = "stateDiagram" -> mermaid_state(code)
                   [] first_word = "erDiagram" -> mermaid_er(code)
                   [] first_word = "gantt" -> mermaid_gantt(code)
                   [] first_word = "mindmap" -> mermaid_mindmap(code)
                   [] first_word = "pie" -> mermaid_pie(code)
                   [] OTHER -> Valid
        link_styles == SelectSeq(str_split(code, "\n"), LAMBDA line :
            str_contains(line, "linkStyle"))
    IN IF first_word \notin valid_starters
       THEN ValidationResult(FALSE, <<"Invalid or missing diagram type declaration">>,
                <<"Diagram must start with one of: valid_starters">>)
       ELSE IF ~any(Tail(str_split(code, "\n")), LAMBDA line :
                    str_strip(line) # "" /\ ~str_startswith(str_strip(line), "%"))
            THEN ValidationResult(FALSE, <<"Diagram is empty or contains only comments">>,
                     <<"Add at least one node or connection">>)
            ELSE IF typed # Valid
                 THEN typed
                 ELSE IF any(link_styles, LAMBDA style :
                             str_contains(style, "linkStyle 0 ") \/ str_contains(style, "linkStyle 1 "))
                      THEN ValidationResult(FALSE, <<"Inconsistent link styling">>,
                               <<"Use 'linkStyle default' instead of numbered linkStyles for consistent styling">>)
                      ELSE Valid

\* PLANTUML_START_TAGS.values()
PLANTUML_START_TAGS == {"@startmindmap", "@startgantt", "@startuml"}

\* _validate_plantuml, '@startmindmap' in start_line
plantuml_mindmap(content_lines) ==
    LET level(line) == Len(line) - Len(str_lstrip(line, {"*"}))
        prev_level(i) == IF i = 1 THEN 0 ELSE level(content_lines[i - 1])
    IN IF ~any(content_lines, LAMBDA line : str_contains(line, "*"))
       THEN ValidationResult(FALSE, <<"No mindmap nodes found">>,
                <<"Add at least one node using * syntax">>)
       ELSE IF \E i \in 1 .. Len(content_lines) : level(content_lines[i]) > prev_level(i) + 1
            THEN ValidationResult(FALSE, <<"Invalid node hierarchy">>,
                     <<"Each level can only increase by one * at a time">>)
            ELSE Valid

\* _validate_plantuml, class diagram
plantuml_class(content_lines) ==
    LET classes == SelectSeq(content_lines, LAMBDA line : str_startswith(line, "class "))
    IN IF Len(classes) = 0
       THEN ValidationResult(FALSE, <<"No classes defined">>,
                <<"Define at least one class using 'class' keyword">>)
       ELSE Valid

\* _validate_plantuml, sequence diagram
plantuml_sequence(content_lines) ==
    LET is_participant(line) ==
            str_startswith(line, "participant ") \/ str_startswith(line, "actor ")
        is_message(line) ==
            ~is_participant(line) /\ (str_contains(line, "->") \/ str_contains(line, "-->"))
    IN IF any(content_lines, LAMBDA line : is_message(line) /\ ~str_contains(line, ":"))
       THEN ValidationResult(FALSE, <<"Invalid message syntax">>,
                <<"Messages should include a description after ':' symbol">>)
       ELSE IF ~any(content_lines, is_participant)
            THEN ValidationResult(FALSE, <<"No participants defined">>,
                     <<"Define participants using 'participant' or 'actor' keywords">>)
            ELSE IF ~any(content_lines, is_message)
                 THEN ValidationResult(FALSE, <<"No messages defined">>,
                          <<"Add at least one message between participants">>)
                 ELSE Valid

\* _validate_plantuml, state diagram
plantuml_state(content_lines) ==
    LET declared == SelectSeq(content_lines, LAMBDA line : str_startswith(line, "state "))
        transitions == SelectSeq(content_lines, LAMBDA line :
            ~str_startswith(line, "state ") /\ str_contains(line, "->"))
        two_parts == SelectSeq(transitions, LAMBDA line : Len(str_split(line, "->")) = 2)
        states ==
            {str_split_ws(declared[i])[2] : i \in 1 .. Len(declared)} \cup
            UNION { {str_strip(str_split(two_parts[i], "->")[1]),
                     str_strip(str_split(str_split(two_parts[i], "->")[2], ":")[1])} :
                    i \in 1 .. Len(two_parts) }
    IN IF any(declared, LAMBDA line : Len(str_split_ws(line)) < 2)
       THEN Raised("IndexError")
       ELSE IF states = {} /\ ~any(content_lines, LAMBDA line : str_contains(line, "[*]"))
            THEN ValidationResult(FALSE, <<"No states defined">>,
                     <<"Define states using 'state' keyword or [*] for start/end states">>)
            ELSE IF Len(transitions) = 0
                 THEN ValidationResult(FALSE, <<"No transitions defined">>,
                          <<"Add transitions between states using ->">>)
                 ELSE Valid

\* _validate_plantuml, component diagram
plantuml_component(content_lines) ==
    LET components == SelectSeq(content_lines, LAMBDA line :
            \/ str_startswith(line, "package ")
            \/ str_startswith(line, "[")
            \/ str_startswith(line, "component "))
    IN IF Len(components) = 0
       THEN ValidationResult(FALSE, <<"No components defined">>,
                <<"Define components using 'component', 'package', or [] syntax">>)
       ELSE Valid

\* _validate_plantuml, use case diagram
plantuml_usecase(content_lines) ==
    LET elements == SelectSeq(content_lines, LAMBDA line :
            str_startswith(line, "usecase ") \/ str_startswith(line, "actor "))
    IN IF Len(elements) = 0
       THEN ValidationResult(FALSE, <<"No actors or use cases defined">>,
                <<"Define actors and use cases using 'actor' and 'usecase' keywords">>)
       ELSE Valid

\* _validate_plantuml, activity diagram
plantuml_activity(content_lines) ==
    IF ~any(content_lines, LAMBDA line : str_startswith(line, "start"))
    THEN ValidationResult(FALSE, <<"Missing start node">>,
             <<"Activity diagrams must begin with 'start'">>)
    ELSE IF ~any(content_lines, LAMBDA line :
                 str_startswith(line, "stop") \/ str_startswith(line, "end"))
         THEN ValidationResult(FALSE, <<"Missing end node">>,
                  <<"Activity diagrams must end with 'stop' or 'end'">>)
         ELSE IF ~any(content_lines, LAMBDA line : str_startswith(line, ":"))
              THEN ValidationResult(FALSE, <<"No activities defined">>,
                       <<"Define activities using :activity name; syntax">>)
              ELSE Valid

\* _validate_plantuml, ER diagram
plantuml_er(content_lines) ==
    LET declared == SelectSeq(content_lines, LAMBDA line : str_startswith(line, "entity "))
        relationships == SelectSeq(content_lines, LAMBDA line :
            /\ ~str_startswith(line, "entity ")
            /\ \E x \in {"--|{", "--||", "--o|"} : str_contains(line, x))
        entities == {str_split_ws(declared[i])[2] : i \in 1 .. Len(declared)}
    IN IF any(declared, LAMBDA line : Len(str_split_ws(line)) < 2)
       THEN Raised("IndexError")
       ELSE IF entities = {}
            THEN ValidationResult(FALSE, <<"No entities defined">>,
                     <<"Define entities using 'entity' keyword">>)
            ELSE IF Len(relationships) = 0
                 THEN ValidationResult(FALSE, <<"No relationships defined">>,
                          <<"Define relationships between entities">>)
                 ELSE Valid

\* _validate_plantuml, '@startuml' in start_line: the kind is told from the content
plantuml_uml(content, content_lines) ==
    IF any(content_lines, LAMBDA line : str_startswith(line, "class "))
    THEN plantuml_class(content_lines)
    ELSE IF str_contains(content, "->") \/ str_contains(content, "-->")
    THEN plantuml_sequence(content_lines)
    ELSE IF str_contains(content, "state ") \/ str_contains(content, "[*] ->")
    THEN plantuml_state(content_lines)
    ELSE IF any(content_lines, LAMBDA line :
                \/ str_startswith(line, "package ")
                \/ str_startswith(line, "[")
                \/ str_startswith(line, "component "))
    THEN plantuml_component(content_lines)
    ELSE IF any(content_lines, LAMBDA line :
                str_startswith(line, "usecase ") \/ str_startswith(line, "actor "))
    THEN plantuml_usecase(content_lines)
    ELSE IF any(content_lines, LAMBDA line :
                \/ str_startswith(line, "start")
                \/ str_startswith(line, ":")
                \/ str_startswith(line, "if "))
    THEN plantuml_activity(content_lines)
    ELSE IF any(content_lines, LAMBDA line : str_startswith(line, "entity "))
    THEN plantuml_er(content_lines)
    ELSE Valid

\* _validate_plantuml, '@startgantt' in start_line
plantuml_gantt(content_lines) ==
    LET has_project == any(content_lines, LAMBDA line :
            str_contains(Lower(line), "project starts"))
        has_tasks == any(content_lines, LAMBDA line :
            /\ ~str_contains(Lower(line), "project starts")
            /\ (str_contains(line, "] lasts") \/ str_contains(line, "] starts")))
    IN IF ~has_project
       THEN ValidationResult(FALSE, <<"Missing project start">>,
                <<"Define project start date using 'Project starts' directive">>)
       ELSE IF ~has_tasks
            THEN ValidationResult(FALSE, <<"No tasks defined">>,
                     <<"Add tasks using [Task] syntax with starts/lasts duration">>)
            ELSE Valid

\* _validate_plantuml
_validate_plantuml(code0) ==
    LET code == str_strip(code0)
        start_line == Lower(str_split(code, "\n")[1])
        valid_start == \E tag \in PLANTUML_START_TAGS : str_contains(start_line, tag)
        first_line_end == str_find(code, "\n")
        content == str_strip(SubSeq(code, first_line_end, str_rindex(code, "@enduml") - 1))
        content_lines ==
            LET kept == SelectSeq(str_split(content, "\n"), LAMBDA line : str_strip(line) # "")
            IN [i \in 1 .. Len(kept) |-> str_strip(kept[i])]
    IN IF ~valid_start
       THEN ValidationResult(FALSE, <<"Invalid or missing PlantUML start tag">>,
                <<"Diagram must start with one of: PLANTUML_START_TAGS">>)
       ELSE IF ~str_endswith(str_strip(code), "@enduml")
            THEN ValidationResult(FALSE, <<"Missing @enduml tag">>,
                     <<"Diagram must end with @enduml">>)
            ELSE IF first_line_end = 0
                 THEN ValidationResult(FALSE, <<"Single line PlantUML diagram">>,
                          <<"Add content between start and end tags">>)
                 ELSE IF str_rindex(code, "@enduml") = 0
                      THEN Raised("ValueError")
                      ELSE IF content = ""
                           THEN ValidationResult(FALSE, <<"Empty diagram content">>,
                                    <<"Add diagram content between start and end tags">>)
                           ELSE IF str_contains(start_line, "@startmindmap")
                                THEN plantuml_mindmap(content_lines)
                                ELSE IF str_contains(start_line, "@startuml")
                                     THEN plantuml_uml(content, content_lines)
                                     ELSE IF str_contains(start_line, "@startgantt")
                                          THEN plantuml_gantt(content_lines)
                                          ELSE Valid

\* _clean_plantuml_code
_clean_plantuml_code(code) ==
    LET lines == str_split(str_strip(code), "\n")
        cleaned(line) ==
            LET stripped == str_strip(line)
            IN IF str_startswith(stripped, "@start") /\ ~str_contains(stripped, " ")
               THEN Lower(SubSeq(stripped, 1, 5)) \o SubSeq(stripped, 6, Len(stripped))
               ELSE IF str_startswith(stripped, "@end") /\ ~str_contains(stripped, " ")
                    THEN Lower(SubSeq(stripped, 1, 4)) \o SubSeq(stripped, 5, Len(stripped))
                    ELSE stripped
    IN str_join("\n", [i \in 1 .. Len(lines) |-> cleaned(lines[i])])

\* the validation that looks at the diagram type before it looks at the code
validate_type_first(code, diagram_type) ==
    LET diagram_type_enum ==
            IF diagram_type.kind = "str" THEN from_string(diagram_type.value)
            ELSE diagram_type.value
    IN IF diagram_type.kind = "str" /\ diagram_type_enum = "None"
       THEN ValidationResult(FALSE, <<"Invalid diagram type: " \o diagram_type.value>>,
                <<"Available types: ['mermaid', 'plantuml']">>)
       ELSE IF code = "" \/ str_strip(code) = ""
            THEN ValidationResult(FALSE, <<"Empty diagram code">>, <<>>)
            ELSE IF diagram_type_enum = "mermaid"
                 THEN _validate_mermaid(_clean_mermaid_code(code))
                 ELSE IF diagram_type_enum = "plantuml"
                      THEN _validate_plantuml(_clean_plantuml_code(code))
                      ELSE ValidationResult(FALSE,
                               <<"Unsupported diagram type: " \o diagram_type.value>>, <<>>)

\* DiagramValidator.validate
validate(code, diagram_type) ==
    LET diagram_type_enum ==
            IF diagram_type.kind = "str" THEN from_string(diagram_type.value)
            ELSE diagram_type.value
    IN IF code = "" \/ str_strip(code) = ""
       THEN ValidationResult(FALSE, <<"Empty diagram code">>, <<>>)
       ELSE IF diagram_type.kind = "str" /\ diagram_type_enum = "None"
            THEN ValidationResult(FALSE, <<"Invalid diagram type: " \o diagram_type.value>>,
                     <<"Available types: ['mermaid', 'plantuml']">>)
            ELSE IF diagram_type_enum = "mermaid"
                 THEN _validate_mermaid(_clean_mermaid_code(code))
                 ELSE IF diagram_type_enum = "plantuml"
                      THEN _validate_plantuml(_clean_plantuml_code(code))
                      ELSE ValidationResult(FALSE,
                               <<"Unsupported diagram type: " \o diagram_type.value>>, <<>>)

(***************************************************************************)
(* The generative backend: what ollama.generate can answer.                *)
(***************************************************************************)
ErrorResponse == [kind |-> "ErrorResponse", response |-> <<>>]
OllamaResponse(text) == [kind |-> "OllamaResponse", response |-> text]

ResponseTexts ==
    { <<>>,                                                 \* an empty answer
      <<"%% note">>,                                        \* only a comment
      <<"graph TD", "A-->B">>,                              \* a valid flowchart
      <<"graph TD", "A->B">>,                               \* a mistyped connection
      <<"[fence]mermaid", "graph TD", "A-->B", "[fence]">>, \* a fenced valid flowchart
      <<"Here is the diagram", "graph TD", "A-->B">>,       \* prose, then a flowchart
      <<"[fence]", "[fence]">>,                             \* an empty fenced block
      <<"", "">>,                                           \* blank: a line break alone
      <<"@startuml", "class A", "@enduml">> }               \* a valid class diagram

Responses == {ErrorResponse} \cup {OllamaResponse(t) : t \in ResponseTexts}

(***************************************************************************)
(* diagram_agent.py: DiagramAgent                                          *)
(***************************************************************************)
Note(text, n, detail) == [text |-> text, n |-> n, detail |-> detail]


\* _init_state; code None is <<>>: the code only ever tests "not state.code"
_init_state(inp) ==
    [diagram_type |-> Lower(inp.diagram_type),
     code |-> <<>>,
     errors |-> <<>>,
     iterations |-> 0,
     notes |-> <<>>,
     completed |-> FALSE]

\* the generation taking whatever the extraction gives, empty or not
_generate_with_llm_unchecked(result) ==
    IF result.kind = "ErrorResponse"
    THEN [raised |-> "Failed to generate diagram", content |-> <<>>]
    ELSE [raised |-> "", content |-> _extract_clean_diagram_code(Strip(result.response))]

\* _generate_with_llm, from the answer of ollama.generate on
_generate_with_llm(result) ==
    LET raw_content == Strip(result.response)
        content == _extract_clean_diagram_code(raw_content)
    IN IF result.kind = "ErrorResponse"
       THEN [raised |-> "Failed to generate diagram", content |-> <<>>]
       ELSE IF content = <<>>
            THEN [raised |-> "LLM returned empty or unusable response", content |-> <<>>]
            ELSE [raised |-> "", content |-> content]

\* _fix_diagram, from the answer of ollama.generate on
_fix_diagram(result) ==
    LET fixed_code == Strip(result.response)
    IN IF result.kind = "ErrorResponse"
       THEN [raised |-> "Failed to fix diagram", content |-> <<>>]
       ELSE IF fixed_code = <<>>
            THEN [raised |-> "Fix resulted in empty diagram", content |-> <<>>]
            ELSE [raised |-> "", content |-> fixed_code]

\* the str of a text given by its lines
Text(lines) == str_join("\n", lines)

\* run_agent lines 687-697 and 713-723: strip the comments and validate
with_code(st, raw_code) ==
    LET code == Strip(_strip_comments(raw_code))
    IN [st EXCEPT !.code = code,
                  !.errors = validate(Text(code), EnumType(st.diagram_type)).errors]

\* the loop condition letting one attempt too many through
loop_condition_inclusive(st, n, max_iterations) == st.errors # <<>> /\ n <= max_iterations

\* run_agent line 701: the condition of the fix loop
loop_condition(st, n, max_iterations) == st.errors # <<>> /\ n < max_iterations

\* the re-validation leaving no note when the fix succeeded
note_attempt_silent(st, n) ==
    IF st.errors = <<>>
    THEN st
    ELSE [st EXCEPT !.notes = Append(@, Note("Attempt: Still fixing errors", n,
                                             SubSeq(st.errors, 1, Min(2, Len(st.errors)))))]

\* run_agent lines 725-730: the note after a re-validation
note_attempt(st, n) ==
    IF st.errors = <<>>
    THEN [st EXCEPT !.notes = Append(@, Note("Successfully fixed diagram issues", 0, <<>>))]
    ELSE [st EXCEPT !.notes = Append(@, Note("Attempt: Still fixing errors", n,
                                             SubSeq(st.errors, 1, Min(2, Len(st.errors)))))]

\* the failure note written whenever the budget is used up, errors or not
after_loop_always(st, n, max_iterations) ==
    IF n >= max_iterations
    THEN [st EXCEPT !.notes = Append(@, Note("Failed to generate valid diagram after attempts", n, <<>>))]
    ELSE st

\* run_agent lines 732-734: max iterations reached
after_loop(st, n, max_iterations) ==
    IF st.errors # <<>> /\ n >= max_iterations
    THEN [st EXCEPT !.notes = Append(@, Note("Failed to generate valid diagram after attempts", n, <<>>))]
    ELSE st

\* the except clause replacing the notes by the error note
on_exception_resets_notes(st, e) ==
    [st EXCEPT !.notes = <<Note("Error during generation", 0, <<e>>)>>,
               !.errors = Append(@, e),
               !.completed = TRUE]

\* the except clause leaving the error list as it was
on_exception_note_only(st, e) ==
    [st EXCEPT !.notes = Append(@, Note("Error during generation", 0, <<e>>)),
               !.completed = TRUE]

\* run_agent lines 737-740: except Exception as e
on_exception(st, e) ==
    [st EXCEPT !.notes = Append(@, Note("Error during generation", 0, <<e>>)),
               !.errors = Append(@, e),
               !.completed = TRUE]

_prepare_output(st) ==
    [status |-> "returned",
     code |-> st.code,
     diagram_type |-> st.diagram_type,
     notes |-> st.notes,
     valid |-> (st.errors = <<>>),
     iterations |-> st.iterations]

NoOutput ==
    [status |-> "none", code |-> <<>>, diagram_type |-> "", notes |-> <<>>,
     valid |-> FALSE, iterations |-> 0]
Escaped(what) == [NoOutput EXCEPT !.status = what]

\* the storage collaborator: each save either succeeds or raises StorageError
StorageOutcomes == {"ok", "save_diagram fails", "save_conversation fails"}

DiagramRecord(st) ==
    [call |-> "save_diagram", code |-> st.code, valid |-> (st.errors = <<>>),
     iterations |-> st.iterations, messages |-> <<>>]
ConversationRecord(st) ==
    [call |-> "save_conversation", code |-> st.code, valid |-> (st.errors = <<>>),
     iterations |-> st.iterations, messages |-> <<"user", "assistant">>]

\* the store without the early return for a state that holds no code
_store_results_unguarded(st, how) ==
    IF how = "save_diagram fails"
    THEN [calls |-> <<DiagramRecord(st)>>, raised |-> TRUE]
    ELSE [calls |-> <<DiagramRecord(st), ConversationRecord(st)>>,
          raised |-> (how = "save_conversation fails")]

\* _store_results: the calls it makes on the storage, and whether it raised
_store_results(st, how) ==
    IF st.code = <<>>
    THEN [calls |-> <<>>, raised |-> FALSE]
    ELSE IF how = "save_diagram fails"
         THEN [calls |-> <<DiagramRecord(st)>>, raised |-> TRUE]
         ELSE [calls |-> <<DiagramRecord(st), ConversationRecord(st)>>,
               raised |-> (how = "save_conversation fails")]

(***************************************************************************)
(* caching.py: CacheEntry and DiagramCache.  The cache directory is a      *)
(* function from the keys that have a file to the entry in the file; a     *)
(* request is what get, set and invalidate take to derive the key; NoTtl   *)
(* is the ttl None and NoEntry the result None.                            *)
(***************************************************************************)
\* ttl = None: the entry never expires
NoTtl == 0 - 1
CacheEntry(value, timestamp, ttl) == [value |-> value, timestamp |-> timestamp, ttl |-> ttl]
NoEntry == [none |-> TRUE]

\* the validity test that still accepts the entry at the instant its ttl ends
is_valid_inclusive(entry, t) == entry.ttl = NoTtl \/ t <= entry.timestamp + entry.ttl

\* CacheEntry.is_valid at time t
is_valid(entry, t) == entry.ttl = NoTtl \/ t < entry.timestamp + entry.ttl

\* CacheEntry.to_dict and CacheEntry.from_dict; json keeps a str, a float and null
to_dict(entry) ==
    [value |-> entry.value, timestamp |-> entry.timestamp, ttl |-> entry.ttl, metadata |-> "{}"]
from_dict(data) == CacheEntry(data.value, data.timestamp, data.ttl)

\* the arguments that get, set and invalidate derive the key from; rag_context
\* None is "", kwargs maps the names of the keyword arguments to their values in JSON
Request(description, diagram_type, rag_context, kwargs) ==
    [description |-> description, diagram_type |-> diagram_type,
     rag_context |-> rag_context, kwargs |-> kwargs]
NoOptions == [name \in {} |-> ""]

\* the names of keyword arguments in the model, in the order sort_keys puts them
OptionNames == <<"model", "temperature">>

\* json.dumps(kwargs, sort_keys=True)
json_dumps(kwargs) ==
    LET names == SelectSeq(OptionNames, LAMBDA name : name \in DOMAIN kwargs)
    IN "{" \o str_join(", ", [i \in 1 .. Len(names) |->
                                 "\"" \o names[i] \o "\": " \o kwargs[names[i]]]) \o "}"

\* hashlib.sha256(s.encode()).hexdigest(): taken to give different strings
\* different digests
sha256_hexdigest(s) == "sha256(" \o s \o ")"

\* DiagramCache._get_cache_key
_get_cache_key(description, diagram_type, rag_context, kwargs) ==
    LET key_parts == <<str_strip(description),
                       Lower(diagram_type),
                       IF rag_context # "" THEN str_strip(rag_context) ELSE "",
                       json_dumps(kwargs)>>
        key_string == str_join("|", key_parts)
    IN sha256_hexdigest(key_string)

key_of(r) == _get_cache_key(r.description, r.diagram_type, r.rag_context, r.kwargs)

\* the directory without the file of key, and with a file of that content for key
Unlink(c, key) == [k \in DOMAIN c \ {key} |-> c[k]]
WriteText(c, key, data) == [k \in DOMAIN c \cup {key} |-> IF k = key THEN data ELSE c[k]]

\* DiagramCache.get at time t: what it returns and the directory it leaves
cache_get(c, r, t) ==
    LET key == key_of(r)
    IN IF key \notin DOMAIN c
       THEN [ret |-> NoEntry, cache |-> c]
       ELSE IF is_valid(from_dict(c[key]), t)
            THEN [ret |-> from_dict(c[key]), cache |-> c]
            ELSE [ret |-> NoEntry, cache |-> Unlink(c, key)]

\* the set that leaves an entry that is there alone
cache_set_if_absent(c, r, value, ttl, t) ==
    IF key_of(r) \in DOMAIN c THEN c
    ELSE WriteText(c, key_of(r), to_dict(CacheEntry(value, t, ttl)))

\* DiagramCache.set at time t: the directory it leaves
cache_set(c, r, value, ttl, t) ==
    WriteText(c, key_of(r), to_dict(CacheEntry(value, t, ttl)))

\* DiagramCache.invalidate
cache_invalidate(c, r) ==
    IF key_of(r) \in DOMAIN c
    THEN [ret |-> TRUE, cache |-> Unlink(c, key_of(r))]
    ELSE [ret |-> FALSE, cache |-> c]

\* DiagramCache.clear
cache_clear(c) == [ret |-> Cardinality(DOMAIN c), cache |-> [k \in {} |-> NoEntry]]

\* an empty cache directory
NoCache == [k \in {} |-> NoEntry]

\* the request a run makes of the cache: its description and diagram type
RequestOf(inp) == Request("test diagram", inp.diagram_type, "", NoOptions)

\* the caches a run may find: empty, holding an entry without expiry for
\* mermaid requests, holding an expired one
Caches ==
    { NoCache,
      cache_set(NoCache, Request("test diagram", "mermaid", "", NoOptions),
                "graph TD\nA-->B", NoTtl, 0),
      cache_set(NoCache, Request("test diagram", "mermaid", "", NoOptions),
                "graph TD\nA-->B", 0, 0) }

(***************************************************************************)
(* What the cache operations made so far should have left: per key the     *)
(* last set that no invalidate or clear came after, and whether a get has  *)
(* found it expired.                                                       *)
(***************************************************************************)
Expired(e, t) == e.ttl # NoTtl /\ t >= e.timestamp + e.ttl

AfterSet(s, key, value, ttl, t) ==
    [k \in DOMAIN s \cup {key} |->
        IF k = key THEN [value |-> value, timestamp |-> t, ttl |-> ttl, purged |-> FALSE]
        ELSE s[k]]
AfterGet(s, key, t) ==
    [k \in DOMAIN s |-> IF k = key /\ Expired(s[k], t) THEN [s[k] EXCEPT !.purged = TRUE] ELSE s[k]]
AfterInvalidate(s, key) == [k \in DOMAIN s \ {key} |-> s[k]]

\* the keys whose entry is there
Live(s) == {k \in DOMAIN s : ~s[k].purged}

(***************************************************************************)
(* Steps of one run of run_agent.  The run is suspended only in its        *)
(* backend calls (await self.ollama.generate), so a step is the code from  *)
(* one answer of the backend to the next call, or to the end of the run.   *)
(***************************************************************************)
max_iterations == input_data.max_iterations

\* run_agent lines 742-747: store the results, prepare the output
Finish(st, how) ==
    LET r == _store_results(st, how)
        done == [st EXCEPT !.completed = TRUE]
    IN /\ storage' = storage \o r.calls
       /\ IF r.raised
          THEN /\ state' = st
               /\ pc' = "raised"
               /\ output' = Escaped("StorageError")
          ELSE /\ state' = done
               /\ pc' = "returned"
               /\ output' = _prepare_output(done)

\* the head of the fix loop issuing the fix call without counting the iteration
EnterLoop_uncounted(st, n, how) ==
    IF loop_condition(st, n, max_iterations)
    THEN /\ attempts' = n + 1
         /\ state' = st
         /\ pc' = "fixing"
         /\ backend_calls' = backend_calls + 1
         /\ UNCHANGED <<output, storage>>
    ELSE /\ attempts' = n
         /\ Finish(after_loop(st, n, max_iterations), how)
         /\ UNCHANGED backend_calls

\* run_agent lines 701-712 and 732-734: the head of the fix loop with n attempts made
EnterLoop(st, n, how) ==
    IF loop_condition(st, n, max_iterations)
    THEN /\ attempts' = n + 1
         /\ state' = [st EXCEPT !.iterations = @ + 1]
         /\ pc' = "fixing"
         /\ backend_calls' = backend_calls + 1
         /\ UNCHANGED <<output, storage>>
    ELSE /\ attempts' = n
         /\ Finish(after_loop(st, n, max_iterations), how)
         /\ UNCHANGED backend_calls

\* run_agent lines 649-682: build the state, then call the backend
RunAgent ==
    /\ pc = "idle"
    /\ IF Lower(input_data.diagram_type) \notin DiagramType
       THEN /\ pc' = "raised"
            /\ output' = Escaped("ValueError")
            /\ op' = Op("run_agent", 0, "raised")
            /\ UNCHANGED <<state, backend_calls>>
       ELSE /\ state' = [_init_state(input_data) EXCEPT
                            !.notes = IF input_data.rag_context
                                      THEN <<Note("Found relevant code context", 0, <<>>)>>
                                      ELSE <<>>]
            /\ pc' = "generating"
            /\ backend_calls' = backend_calls + 1
            /\ op' = Op("run_agent", 0, "generate")
            /\ UNCHANGED output
    /\ UNCHANGED <<input_data, attempts, storage, validations, backend_failures, candidates,
                   cache>>
    /\ UNCHANGED <<breakerVars, retryVars, validatorVars, cacheVars>>

\* the initial generation call answers
GenerateReturns(result, how) ==
    /\ pc = "generating"
    /\ LET g == _generate_with_llm(result)
       IN IF g.raised # ""
          THEN /\ Finish(on_exception(state, g.raised), how)
               /\ backend_failures' = backend_failures + 1
               /\ op' = Op("generate_returns", 0, "raised")
               /\ UNCHANGED <<attempts, backend_calls, validations, candidates>>
          ELSE \E validated \in {with_code(state, g.content)} :
                  /\ validations' = Append(validations, validated.errors = <<>>)
                  /\ candidates' = Append(candidates, validated.code)
                  /\ EnterLoop(validated, 0, how)
                  /\ op' = Op("generate_returns", 0, "validated")
                  /\ UNCHANGED backend_failures
    /\ UNCHANGED <<input_data, cache>>
    /\ UNCHANGED <<breakerVars, retryVars, validatorVars, cacheVars>>

\* a fix call answers
FixReturns(result, how) ==
    /\ pc = "fixing"
    /\ LET f == _fix_diagram(result)
       IN IF f.raised # ""
          THEN /\ Finish(on_exception(state, f.raised), how)
               /\ backend_failures' = backend_failures + 1
               /\ op' = Op("fix_returns", attempts, "raised")
               /\ UNCHANGED <<attempts, backend_calls, validations, candidates>>
          ELSE \E validated \in {with_code(state, f.content)} :
                  /\ validations' = Append(validations, validated.errors = <<>>)
                  /\ candidates' = Append(candidates, validated.code)
                  /\ EnterLoop(note_attempt(validated, attempts), attempts, how)
                  /\ op' = Op("fix_returns", attempts, "validated")
                  /\ UNCHANGED backend_failures
    /\ UNCHANGED <<input_data, cache>>
    /\ UNCHANGED <<breakerVars, retryVars, validatorVars, cacheVars>>

\* api/diagrams.py generate_diagram, lines 138-184: the HTTP handler, having got
\* the output of the run, saves a diagram record under the run's diagram id when
\* the output has code and is valid; the handler's storage is another Storage
\* object on the same data directory
ApiDiagramRecord(out) ==
    [call |-> "save_diagram", code |-> out.code, valid |-> out.valid,
     iterations |-> out.iterations, messages |-> <<>>]

ApiGenerateDiagram(how) ==
    /\ pc = "returned"
    /\ pc' = "responded"
    /\ IF output.code # <<>> /\ output.valid
       THEN /\ storage' = Append(storage, ApiDiagramRecord(output))
            /\ op' = Op("api_generate_diagram", 1,
                        IF how = "save_diagram fails" THEN "HTTP 500" ELSE "HTTP 200")
       ELSE /\ storage' = storage
            /\ op' = Op("api_generate_diagram", 0, "HTTP 200")
    /\ UNCHANGED <<input_data, state, attempts, output, backend_calls, validations,
                   backend_failures, candidates, cache>>
    /\ UNCHANGED <<breakerVars, retryVars, validatorVars, cacheVars>>

\* the cancellation handled by the except clause like any other exception
Cancel_caught ==
    /\ pc \in {"generating", "fixing"}
    /\ Finish(on_exception(state, "CancelledError"), "ok")
    /\ op' = Op("cancel", 0, "none")
    /\ UNCHANGED <<input_data, attempts, backend_calls, validations, backend_failures,
                   candidates, cache>>
    /\ UNCHANGED <<breakerVars, retryVars, validatorVars, cacheVars>>

\* the task running run_agent is cancelled while it awaits the backend:
\* CancelledError is no Exception, so the except clause does not catch it
Cancel ==
    /\ pc \in {"generating", "fixing"}
    /\ pc' = "cancelled"
    /\ output' = Escaped("CancelledError")
    /\ op' = Op("cancel", 0, "none")
    /\ UNCHANGED <<input_data, state, attempts, storage, backend_calls, validations,
                   backend_failures, candidates, cache>>
    /\ UNCHANGED <<breakerVars, retryVars, validatorVars, cacheVars>>

NextAgent ==
    \/ RunAgent
    \/ \E result \in Responses, how \in StorageOutcomes : GenerateReturns(result, how)
    \/ \E result \in Responses, how \in StorageOutcomes : FixReturns(result, how)
    \/ Cancel
    \/ \E how \in {"ok", "save_diagram fails"} : ApiGenerateDiagram(how)

(***************************************************************************)
(* A call of RetryConfig.get_delay.                                        *)
(***************************************************************************)
GetDelay(attempt, jitter_amount) ==
    /\ delay' = get_delay(config, attempt, jitter_amount)
    /\ op' = Op("get_delay", attempt, "none")
    /\ UNCHANGED <<config, retry>>
    /\ UNCHANGED <<breakerVars, agentVars, validatorVars, cacheVars>>

NextRetry ==
    \E attempt \in 1 .. MaxAttemptNo, jitter_amount \in (0 - config.jitter) .. config.jitter :
        GetDelay(attempt, jitter_amount)

(***************************************************************************)
(* A call of a function decorated with with_retries(config) or             *)
(* with_sync_retries(config).                                              *)
(***************************************************************************)
RetryCall(kind) ==
    /\ retry.pc = "idle"
    /\ retry' = loop_enter(config, [retry EXCEPT !.kind = kind], 1)
    /\ op' = Op("retry_call", 0, kind)
    /\ UNCHANGED <<config, delay>>
    /\ UNCHANGED <<breakerVars, agentVars, validatorVars, cacheVars>>

\* the wrapped function returns: return (await) func(*args, **kwargs)
FuncReturns ==
    /\ retry.pc = "calling"
    /\ retry' = [retry EXCEPT !.pc = "returned", !.outcome = "result"]
    /\ op' = Op("func_returns", retry.attempt, "result")
    /\ UNCHANGED <<config, delay>>
    /\ UNCHANGED <<breakerVars, agentVars, validatorVars, cacheVars>>

\* the wrapped function raises an exception of type e
FuncRaises(e, jitter_amount) ==
    /\ retry.pc = "calling"
    /\ retry' = on_raise(config, retry, e)
    /\ delay' = IF retry'.pc = "sleeping"
                THEN get_delay(config, retry.attempt, jitter_amount)
                ELSE delay
    /\ op' = Op("func_raises", retry.attempt, e)
    /\ UNCHANGED config
    /\ UNCHANGED <<breakerVars, agentVars, validatorVars, cacheVars>>

\* the sleep is over: the next iteration of the loop
SleepDone ==
    /\ retry.pc = "sleeping"
    /\ retry' = loop_enter(config, retry, retry.attempt + 1)
    /\ op' = Op("sleep_done", retry.attempt, "none")
    /\ UNCHANGED <<config, delay>>
    /\ UNCHANGED <<breakerVars, agentVars, validatorVars, cacheVars>>

NextRetries ==
    \/ \E kind \in {"async", "sync"} : RetryCall(kind)
    \/ FuncReturns
    \/ \E e \in ExceptionTypes, jitter_amount \in (0 - config.jitter) .. config.jitter :
          FuncRaises(e, jitter_amount)
    \/ SleepDone

(***************************************************************************)
(* Calls of the validator: validate, and the two cleaning functions,       *)
(* which DiagramGenerator calls on the code before it calls validate.      *)
(***************************************************************************)
NoResult == [none |-> TRUE]

Validate ==
    /\ validation' = validate(diagram_code, family)
    /\ op' = Op("validate", 0,
                IF "raised" \in DOMAIN validation' THEN "raised" ELSE BoolStr(validation'.valid))
    /\ UNCHANGED <<diagram_code, family>>
    /\ UNCHANGED <<breakerVars, retryVars, agentVars, cacheVars>>

CleanMermaid ==
    /\ diagram_code' = _clean_mermaid_code(diagram_code)
    /\ validation' = NoResult
    /\ op' = Op("_clean_mermaid_code", 0, "none")
    /\ UNCHANGED family
    /\ UNCHANGED <<breakerVars, retryVars, agentVars, cacheVars>>

CleanPlantuml ==
    /\ diagram_code' = _clean_plantuml_code(diagram_code)
    /\ validation' = NoResult
    /\ op' = Op("_clean_plantuml_code", 0, "none")
    /\ UNCHANGED family
    /\ UNCHANGED <<breakerVars, retryVars, agentVars, cacheVars>>

NextValidator ==
    \/ Validate
    \/ CleanMermaid
    \/ CleanPlantuml

(***************************************************************************)
(* Calls of the cache by two callers, each with its request; caller i      *)
(* stores Value(i).                                                        *)
(***************************************************************************)
Callers == {1, 2}
Value(i) == IF i = 1 THEN "version 1" ELSE "version 2"

\* the variables of a run of the agent
runVars == <<input_data, state, attempts, pc, output, storage, backend_calls, validations,
            backend_failures, candidates>>

CacheSet(i, ttl) ==
    /\ cache' = cache_set(cache, requests[i], Value(i), ttl, now)
    /\ stored' = AfterSet(stored, key_of(requests[i]), Value(i), ttl, now)
    /\ op' = Op("set", i, "None")
    /\ UNCHANGED <<requests, runVars>>
    /\ UNCHANGED <<breakerVars, retryVars, validatorVars>>

CacheGet(i) ==
    /\ LET g == cache_get(cache, requests[i], now)
       IN /\ cache' = g.cache
          /\ op' = Op("get", i, IF g.ret = NoEntry THEN "None" ELSE g.ret.value)
    /\ stored' = AfterGet(stored, key_of(requests[i]), now)
    /\ UNCHANGED <<requests, runVars>>
    /\ UNCHANGED <<breakerVars, retryVars, validatorVars>>

CacheInvalidate(i) ==
    /\ LET r == cache_invalidate(cache, requests[i])
       IN /\ cache' = r.cache
          /\ op' = Op("invalidate", i, BoolStr(r.ret))
    /\ stored' = AfterInvalidate(stored, key_of(requests[i]))
    /\ UNCHANGED <<requests, runVars>>
    /\ UNCHANGED <<breakerVars, retryVars, validatorVars>>

CacheClear ==
    /\ LET r == cache_clear(cache)
       IN /\ cache' = r.cache
          /\ op' = Op("clear", 0, ToString(r.ret))
    /\ stored' = NoCache
    /\ UNCHANGED <<requests, runVars>>
    /\ UNCHANGED <<breakerVars, retryVars, validatorVars>>

NextCache ==
    \/ Tick
    \/ \E i \in Callers, ttl \in {NoTtl} \cup 1 .. MaxTtl : CacheSet(i, ttl)
    \/ \E i \in Callers : CacheGet(i)
    \/ \E i \in Callers : CacheInvalidate(i)
    \/ CacheClear

(***************************************************************************)
(* Initial states.                                                         *)
(***************************************************************************)
Breakers ==
    {CircuitBreaker(ft, rt, hot) :
        ft \in 1 .. MaxThreshold, rt \in 1 .. MaxTimeout, hot \in 1 .. MaxTimeout}

RetryConfigs ==
    {RetryConfig(3, bd, md, eb, {"Exception"}, ji) :
        bd \in 1 .. MaxBaseDelay, md \in 1 .. MaxMaxDelay, eb \in BOOLEAN, ji \in 0 .. MaxJitter}

Inputs ==
    [diagram_type : {"mermaid", "PlantUML", "uml"},
     max_iterations : 1 .. MaxIterations,
     rag_context : BOOLEAN]

NoState ==
    [diagram_type |-> "", code |-> <<>>, errors |-> <<>>, iterations |-> 0,
     notes |-> <<>>, completed |-> FALSE]

BreakerStart(bs) ==
    /\ breaker \in bs
    /\ now = 0
    /\ cb_pc = [t \in Tasks |-> "idle"]
    /\ streak = 0

RetryStart(cs) ==
    /\ config \in cs
    /\ delay = 0
    /\ retry = NoCall

AgentStart(is, cs) ==
    /\ input_data \in is
    /\ state = NoState
    /\ attempts = 0
    /\ pc = "idle"
    /\ output = NoOutput
    /\ storage = <<>>
    /\ backend_calls = 0
    /\ validations = <<>>
    /\ backend_failures = 0
    /\ candidates = <<>>
    /\ cache \in cs

\* no run of the agent: only the place of its variables
NoRun == [diagram_type |-> "mermaid", max_iterations |-> 1, rag_context |-> FALSE]

\* the texts handed to the validator
Codes ==
    { "",   \* an empty text
      "   \n\t   ",   \* blanks only
      "graph TD\nA-->B",   \* a flowchart
      "graph TD;\nA-->B;;\n",   \* statement terminators, twice on a line
      "graph TD\nA-->B; ",   \* a blank after the terminator
      "graph TD\nA-->B ;\nB-->C",   \* a blank before the terminator
      "graph TD\nA->B",   \* a mistyped connection
      "graph TD",   \* a declaration alone
      "graph TD\n%% note",   \* a declaration and a comment
      "Graph TD\nA-->B",   \* a capitalised declaration
      "flowchart LR\nA --- B\nlinkStyle 0 stroke:red",   \* an indexed link style
      "sequenceDiagram\n    participant Alice\n    participant Bob\n    Alice->>Bob: Hello\n    Bob-->>Alice: Hi",   \* a sequence diagram
      "sequenceDiagram\n    Alice->>Bob: Hello",   \* a sequence diagram without participants
      "classDiagram\n    class Animal\n    Animal <|-- Dog",   \* a class diagram
      "stateDiagram\n    [*] --> Idle\n    Idle --> [*]",   \* a state diagram
      "erDiagram\n    CUSTOMER ||--o{ ORDER : places\n    ORDER {\n        int id\n    }",   \* an entity-relationship diagram
      "gantt\n    dateFormat YYYY-MM-DD\n    Task1 :a1, 2024-01-01, 30d",   \* a gantt chart
      "gantt\n    title Plan",   \* a gantt chart without date format
      "gantt\n    dateFormat YYYY-MM-DD",   \* a gantt chart without tasks
      "pie title Pets\n    \"Dogs\" : 40\n    \"Cats\" : 60",   \* a pie chart
      "pie\n    \"Dogs\" : 40%",   \* a pie chart in percent
      "pie\n    \"Dogs\" : many",   \* a pie chart with a word for a value
      "mindmap\n  root((My Project))\n    Features\n      Core\n    Timeline",   \* a mindmap, its root indented
      "mindmap\nroot((Project))\n  Features\n    Core\n  Timeline",   \* a mindmap, its root at the margin
      "mindmap\n  root((Project 1))\n  Features\n  Timeline",   \* a mindmap, three nodes at the root's depth
      "mindmap\nroot((A))\nOther",   \* a mindmap, two nodes at the margin
      "mindmap",   \* a mindmap without nodes
      "mindmap\n  Features\n    Core",   \* a mindmap whose root has another name
      "mindmap\n  root((Project))\n      Features\n    Core",   \* a mindmap that skips a level
      "not a diagram",   \* no diagram
      "@startuml\nclass A\n@enduml",   \* a PlantUML class diagram
      "  @startuml\n  class A  \n@enduml  ",   \* the same between blanks
      "@startuml\nBob -> Alice : hello\n@enduml",   \* a message without participants
      "@startuml\nparticipant Bob\nBob -> Alice : hello\n@enduml",   \* a PlantUML sequence diagram
      "@startuml\nparticipant Bob\nBob -> Alice\n@enduml",   \* a message without label
      "@startuml\nparticipant Bob\n@enduml",   \* a participant alone
      "@startuml\nBob -> Alice\n@endmindmap",   \* start and end tags of different kinds
      "@startmindmap\n* Root\n** Child 1\n** Child 2\n@endmindmap",   \* a PlantUML mindmap
      "@startmindmap\n* Root\n** Child\n@enduml",   \* a mindmap closed by @enduml
      "@startmindmap\n* Root\n*** Deep\n@enduml",   \* a mindmap that skips a level, closed by @enduml
      "@startmindmap\nRoot\n@enduml",   \* a mindmap without stars
      "@startgantt\nProject starts 2024-01-01\n[Task] lasts 5 days\n@endgantt",   \* a PlantUML gantt chart
      "@startgantt\nProject starts 2024-01-01\n[Task] lasts 5 days\n@enduml",   \* a gantt chart closed by @enduml
      "@startgantt\n[Task] lasts 5 days\n@enduml",   \* a gantt chart without project start
      "@startgantt\nProject starts 2024-01-01\n@enduml",   \* a gantt chart without tasks, closed by @enduml
      "@startuml\nstate Idle\n@enduml",   \* a state alone
      "@startuml\nfinal state x\n@enduml",   \* a state in a sentence
      "@startuml\ncomponent Web\n@enduml",   \* a component
      "@startuml\nusecase Login\n@enduml",   \* a use case
      "@startuml\nstart\n:Work;\nstop\n@enduml",   \* an activity diagram
      "@startuml\nstart\n:Work;\n@enduml",   \* an activity diagram without end
      "@startuml\n:Work;\nstop\n@enduml",   \* an activity diagram without start
      "@startuml\nstart\nstop\n@enduml",   \* an activity diagram without activities
      "@startuml\nentity User\nUser --|{ Order\n@enduml",   \* entities and a relationship
      "@startuml\nentity User\n@enduml",   \* an entity alone
      "@startuml\n@enduml",   \* tags with nothing between
      "@startuml @enduml",   \* tags on one line
      "Bob -> Alice : hello" }   \* a message outside tags

\* the diagram_type arguments handed to the validator
Families ==
    {StrType("mermaid"), StrType("Mermaid"), StrType("plantuml"), StrType("unknown"),
     EnumType("mermaid"), EnumType("plantuml"), NoneType}

\* the requests of the two callers of a cache
RequestPairs ==
    LET base == Request("test diagram", "mermaid", "context", NoOptions)
    IN { \* the same request, written with blanks and capitals
         <<base, Request("  test diagram ", "Mermaid", " context", NoOptions)>>,
         \* another description
         <<base, Request("different diagram", "mermaid", "context", NoOptions)>>,
         \* another diagram type
         <<base, Request("test diagram", "plantuml", "context", NoOptions)>>,
         \* another RAG context
         <<base, Request("test diagram", "mermaid", "context 2", NoOptions)>>,
         \* another generation option
         <<base, Request("test diagram", "mermaid", "context",
                         [name \in {"temperature"} |-> "0.5"])>>,
         \* descriptions and contexts that hold the separator of the key string
         <<Request("a", "mermaid", "b|mermaid|c", NoOptions),
           Request("a|mermaid|b", "mermaid", "c", NoOptions)>> }

ValidatorStart(ts, fs) ==
    /\ diagram_code \in ts
    /\ family \in fs
    /\ validation = NoResult

CacheStart(ps) ==
    /\ requests \in ps
    /\ stored = NoCache

\* no call of the validator or of the cache: only the place of their variables
Idle ==
    /\ ValidatorStart({""}, {NoneType})
    /\ CacheStart({<<RequestOf(NoRun), RequestOf(NoRun)>>})

InitBreaker ==
    /\ BreakerStart(Breakers)
    /\ RetryStart({RetryConfig(3, 1, 10, TRUE, {"Exception"}, 0)})
    /\ AgentStart({NoRun}, {NoCache})
    /\ Idle
    /\ op = NoOp

RECURSIVE Failed(_, _, _)
\* breaker b after n calls of record_failure at time t
Failed(b, n, t) == IF n = 0 THEN b ELSE Failed(record_failure(b, t), n - 1, t)

\* A breaker with the defaults of CircuitBreaker.__init__, as constructed or
\* after failure_threshold failures.  No code of the agent holds or calls one.
InitAgent ==
    /\ BreakerStart({CircuitBreaker(5, 60, 30), Failed(CircuitBreaker(5, 60, 30), 5, 0)})
    /\ RetryStart({RetryConfig(3, 1, 10, TRUE, {"Exception"}, 0)})
    /\ AgentStart(Inputs, Caches)
    /\ Idle
    /\ op = NoOp

\* RetryConfig.__init__ checks none of its arguments
RetriesConfigs ==
    {RetryConfig(ma, bd, md, eb, ex, ji) :
        ma \in 0 .. MaxAttempts, bd \in 1 .. MaxBaseDelay, md \in 1 .. MaxMaxDelay,
        eb \in BOOLEAN, ex \in {{"Exception"}, {"ConnectionError"}}, ji \in 0 .. MaxJitter}

InitRetries ==
    /\ BreakerStart({CircuitBreaker(5, 60, 30)})
    /\ RetryStart(RetriesConfigs)
    /\ AgentStart({NoRun}, {NoCache})
    /\ Idle
    /\ op = NoOp

InitRetry ==
    /\ BreakerStart({CircuitBreaker(5, 60, 30)})
    /\ RetryStart(RetryConfigs)
    /\ AgentStart({NoRun}, {NoCache})
    /\ Idle
    /\ op = NoOp

InitValidator ==
    /\ BreakerStart({CircuitBreaker(5, 60, 30)})
    /\ RetryStart({RetryConfig(3, 1, 10, TRUE, {"Exception"}, 0)})
    /\ AgentStart({NoRun}, {NoCache})
    /\ ValidatorStart(Codes, Families)
    /\ CacheStart({<<RequestOf(NoRun), RequestOf(NoRun)>>})
    /\ op = NoOp

InitCache ==
    /\ BreakerStart({CircuitBreaker(5, 60, 30)})
    /\ RetryStart({RetryConfig(3, 1, 10, TRUE, {"Exception"}, 0)})
    /\ AgentStart({NoRun}, {NoCache})
    /\ ValidatorStart({""}, {NoneType})
    /\ CacheStart(RequestPairs)
    /\ op = NoOp

SpecBreaker == InitBreaker /\ [][NextBreaker]_vars
SpecAgent == InitAgent /\ [][NextAgent]_vars
SpecRetry == InitRetry /\ [][NextRetry]_vars
SpecRetries == InitRetries /\ [][NextRetries]_vars
SpecValidator == InitValidator /\ [][NextValidator]_vars
SpecCache == InitCache /\ [][NextCache]_vars

(***************************************************************************)
(* Properties.                                                             *)
(***************************************************************************)
IsPrefix(a, b) == Len(a) <= Len(b) /\ SubSeq(b, 1, Len(a)) = a
HasNote(notes, text) == \E i \in 1 .. Len(notes) : notes[i].text = text

\* the run ended by itself: it returned, or an exception left run_agent
Ended == pc \in {"returned", "raised", "responded"}
\* the fix calls the run has issued
FixCalls == IF backend_calls = 0 THEN 0 ELSE backend_calls - 1
\* at least one validation was made and every one reported errors
AllInvalid == validations # <<>> /\ \A i \in 1 .. Len(validations) : ~validations[i]

\* C1: a run in which every validation reports errors and no backend call fails
\* makes exactly max_iterations fix attempts and then ends: it never makes more,
\* it has ended once the validation after attempt max_iterations is made, and at
\* its end iterations = max_iterations and the output, when the run returns one,
\* has valid = false and iterations = max_iterations.
C1_ExhaustedRun ==
    (AllInvalid /\ backend_failures = 0) =>
        /\ FixCalls <= max_iterations
        /\ (Len(validations) = max_iterations + 1 => Ended)
        /\ (Ended => /\ FixCalls = max_iterations
                     /\ state.iterations = max_iterations
                     /\ state.errors # <<>>)
        /\ (pc = "returned" => /\ output.valid = FALSE
                               /\ output.iterations = max_iterations)

C1_Witness ==
    /\ pc = "returned"
    /\ AllInvalid
    /\ backend_failures = 0
    /\ max_iterations >= 2
    /\ Len(validations) = max_iterations + 1
    /\ output.valid = FALSE
    /\ output.iterations = max_iterations

C4_BackendCallsGuarded ==
    [][ /\ (backend_calls' = backend_calls + 1 =>
               can_execute(breaker', now').ret)
        /\ (backend_failures' = backend_failures + 1 =>
               breaker' = record_failure(breaker, now))
        /\ (op'.name \in {"generate_returns", "fix_returns"} /\ op'.ret = "validated" =>
               breaker'.failures = 0 /\ breaker'.state = "CLOSED") ]_vars

\* C5: the breaker state changes only by CLOSED -> OPEN, OPEN -> HALF_OPEN,
\* HALF_OPEN -> CLOSED or HALF_OPEN -> OPEN, whatever calls of can_execute,
\* record_success and record_failure are made and whenever they are made; in
\* particular never from OPEN straight to CLOSED.
C5_OnlyListedTransitions ==
    [][ breaker'.state # breaker.state =>
            <<breaker.state, breaker'.state>> \in
                { <<"CLOSED", "OPEN">>, <<"OPEN", "HALF_OPEN">>,
                  <<"HALF_OPEN", "CLOSED">>, <<"HALF_OPEN", "OPEN">> } ]_vars

\* C6: once failure_threshold failures have been recorded in a row from a CLOSED
\* breaker with zero failures (no success in between, no gap longer than
\* reset_timeout), and for as long as no more than half_open_timeout has passed
\* since the last failure, the state is OPEN and can_execute() returns false.
C6_OpenAfterThreshold ==
    (streak >= breaker.failure_threshold
        /\ now - breaker.last_failure_time <= breaker.half_open_timeout) =>
        /\ breaker.state = "OPEN"
        /\ can_execute(breaker, now).ret = FALSE
        /\ (op.name = "can_execute" => op.ret = "false")

C6_Witness ==
    /\ breaker.failure_threshold >= 2
    /\ streak = breaker.failure_threshold
    /\ now - breaker.last_failure_time = breaker.half_open_timeout
    /\ breaker.state = "OPEN"
    /\ op.name = "can_execute"
    /\ op.ret = "false"

\* C7: a can_execute() call on an OPEN breaker more than half_open_timeout after
\* the last failure returns true and leaves the state HALF_OPEN; a
\* record_success() call on a HALF_OPEN breaker leaves the state CLOSED with
\* failures = 0, and can_execute() is then true.
C7_HalfOpenThenClosed ==
    [][ /\ (op'.name = "can_execute" /\ breaker.state = "OPEN"
               /\ now - breaker.last_failure_time > breaker.half_open_timeout =>
               /\ op'.ret = "true"
               /\ breaker'.state = "HALF_OPEN")
        /\ (op'.name \in {"record_success", "cb_return"}
               /\ breaker.state = "HALF_OPEN" =>
               /\ breaker'.state = "CLOSED"
               /\ breaker'.failures = 0
               /\ can_execute(breaker', now').ret) ]_vars

C7_Witness ==
    /\ op.name = "record_success"
    /\ op.before = "HALF_OPEN"
    /\ breaker.state = "CLOSED"
    /\ breaker.failures = 0
    /\ breaker.last_failure_time > 0

\* C8: a record_failure made more than reset_timeout after the last recorded
\* failure leaves failures = 1 whatever the count was; one made within
\* reset_timeout adds exactly one to the count.
C8_ResetBeforeCounting ==
    [][ op'.name \in {"record_failure", "cb_raise"} =>
            IF now - breaker.last_failure_time > breaker.reset_timeout
            THEN breaker'.failures = 1
            ELSE breaker'.failures = breaker.failures + 1 ]_vars

C8_Witness ==
    /\ op.name = "record_failure"
    /\ op.arg >= 2
    /\ breaker.failures = 1
    /\ breaker.last_failure_time = now

\* C9: a call through with_circuit_breaker made while can_execute() is false
\* raises 'Circuit breaker is open', does not invoke the wrapped function, and
\* leaves the breaker's failures, last_failure_time and state as they were.
C9_RefusalChangesNothing ==
    [][ (op'.name = "cb_call" /\ can_execute(breaker, now).ret = FALSE) =>
            /\ op'.ret = "Circuit breaker is open"
            /\ cb_pc' = cb_pc
            /\ breaker'.failures = breaker.failures
            /\ breaker'.last_failure_time = breaker.last_failure_time
            /\ breaker'.state = breaker.state ]_vars

C9_Witness ==
    /\ op.name = "cb_call"
    /\ op.ret = "Circuit breaker is open"
    /\ breaker.state = "OPEN"
    /\ \E t \in Tasks : cb_pc[t] = "running"

\* C10: without jitter, get_delay(n) is min(base_delay * 2^(n-1), max_delay) with
\* exponential backoff and base_delay without; with base_delay 1, max_delay 4 and
\* exponential backoff the delays of attempts 1..4 are 1, 2, 4, 4.
C10_DelaySchedule ==
    (op.name = "get_delay" /\ config.jitter = 0) =>
        /\ delay = IF config.exponential_backoff
                   THEN Min(config.base_delay * 2 ^ (op.arg - 1), config.max_delay)
                   ELSE config.base_delay
        /\ (config.exponential_backoff /\ config.base_delay = 1 /\ config.max_delay = 4
               /\ op.arg <= 4 =>
               delay = <<1, 2, 4, 4>>[op.arg])

C10_Witness ==
    /\ op.name = "get_delay"
    /\ op.arg = 3
    /\ config = RetryConfig(3, 1, 4, TRUE, {"Exception"}, 0)
    /\ delay = 4

\* C11: a call through with_retries or with_sync_retries invokes the wrapped
\* function at least once and at most max_attempts times; once it has returned
\* or raised it invokes nothing more; when every invocation raised a retryable
\* exception it raises the last of them after exactly max_attempts invocations
\* and max_attempts - 1 sleeps.
C11_RetryBounds ==
    [][ /\ (retry'.pc # "idle" =>
               /\ retry'.invocations >= 1
               /\ retry'.invocations <= config.max_attempts)
        /\ (retry'.pc = "returned" => retry'.outcome = "result")
        /\ (retry'.pc = "raised" /\ retry'.outcome = retry'.last_error =>
               /\ retry'.invocations = config.max_attempts
               /\ retry'.sleeps = config.max_attempts - 1)
        /\ (retry.pc \in {"returned", "raised"} => retry' = retry) ]_vars

\* C12: an exception of a type outside config.exceptions is propagated at once:
\* the call ends raising it, with no sleep and no further invocation, whatever
\* attempts remain.
C12_NotRetryablePropagates ==
    [][ \A e \in ExceptionTypes :
          (op'.name = "func_raises" /\ op'.ret = e /\ retry.pc = "calling"
              /\ e \notin config.exceptions /\ "Exception" \notin config.exceptions) =>
              /\ retry'.pc = "raised"
              /\ retry'.outcome = e
              /\ retry'.sleeps = retry.sleeps
              /\ retry'.invocations = retry.invocations
              /\ delay' = delay ]_vars

C12_Witness ==
    /\ op.name = "func_raises"
    /\ op.ret = "ValueError"
    /\ config.exceptions = {"ConnectionError"}
    /\ config.max_attempts = 3
    /\ retry.pc = "raised"
    /\ retry.outcome = "ValueError"
    /\ retry.invocations = 2
    /\ retry.sleeps = 1

\* C13: max_delay is the maximum delay between retries: whatever the
\* configuration and the attempt number, the delay get_delay returns, and so
\* every delay with_retries sleeps for, is at most max_delay.
C13_DelayAtMostMax ==
    op.name = "get_delay" => delay <= config.max_delay

\* C14: for a request with a recognised diagram type, no exception escapes
\* run_agent: whether the backend fails, answers unusable text, or the storage
\* fails while saving, the run ends by returning an output that carries the
\* code produced so far, a valid flag and the notes in order.
C14_NoExceptionEscapes ==
    (Lower(input_data.diagram_type) \in DiagramType /\ Ended) =>
        /\ pc # "raised"
        /\ output.status = "returned"
        /\ output.code = state.code
        /\ output.notes = state.notes
        /\ output.valid = (state.errors = <<>>)

\* C15: a request whose diagram type is not a recognised family fails while the
\* initial state is built: ValueError leaves run_agent, and in that run there is
\* no generation call, no fix call, no validation and no storage write.
C15_UnknownTypeFailsFirst ==
    (Lower(input_data.diagram_type) \notin {"mermaid", "plantuml"} /\ pc # "idle") =>
        /\ pc = "raised"
        /\ output.status = "ValueError"
        /\ backend_calls = 0
        /\ validations = <<>>
        /\ storage = <<>>
        /\ state = NoState

C15_Witness ==
    /\ input_data.diagram_type = "uml"
    /\ op.name = "run_agent"
    /\ op.ret = "raised"
    /\ pc = "raised"
    /\ output.status = "ValueError"
    /\ backend_calls = 0

\* C16: the output code is the best candidate even when valid = false: once a
\* backend response of the run has given the state diagram code, the code held
\* (and returned) is never empty again, the output carries the code of the state,
\* and a fix call that fails leaves the candidate held before it.
C16_CodeAlwaysPopulated ==
    [][ /\ (state.code # <<>> /\ pc \in {"generating", "fixing"} => state'.code # <<>>)
        /\ (pc' = "returned" => output'.code = state'.code)
        /\ (op'.name = "fix_returns" /\ op'.ret = "raised" => state'.code = state.code) ]_vars

\* C17: besides max_iterations the loop has a bound on consecutive failed fix
\* attempts, enforced on its own: when the backend keeps answering the same
\* broken output, the run ends before the iteration budget is spent.
C17_GivesUpOnRepeats ==
    (Ended /\ max_iterations >= 2 /\ AllInvalid /\ backend_failures = 0
        /\ \A i \in 1 .. Len(candidates) : candidates[i] = candidates[1]) =>
        state.iterations < max_iterations

\* C18: when the cache holds an unexpired entry for the request, the run returns
\* the entry's code with a single note, without any backend call and without
\* any validation.
C18_CacheShortCircuit ==
    (cache_get(cache, RequestOf(input_data), now).ret # NoEntry /\ pc # "idle") =>
        /\ backend_calls = 0
        /\ validations = <<>>
        /\ pc \in {"returned", "responded"}
        /\ Text(output.code) = cache_get(cache, RequestOf(input_data), now).ret.value
        /\ Len(output.notes) = 1

\* number of calls of the storage method in the log of storage calls
Calls(method) == Cardinality({i \in 1 .. Len(storage) : storage[i].call = method})

\* C19: in each run save_diagram and save_conversation are each called exactly
\* once, after the loop has ended: nothing is written between the first backend
\* call and the end of the fix loop, and no second save_diagram for the run's
\* diagram id follows.
C19_StoredExactlyOnce ==
    /\ (pc \in {"idle", "generating", "fixing"} => storage = <<>>)
    /\ (pc \in {"returned", "responded"} =>
           /\ Calls("save_diagram") = 1
           /\ Calls("save_conversation") = 1)
    /\ Calls("save_diagram") <= 1

\* C20: the conversation record saved for a run holds one user message for the
\* request followed by one assistant message per generation or fix step: a run
\* with k fix iterations stores k + 2 messages.
C20_MessagePerStep ==
    \A i \in 1 .. Len(storage) :
        storage[i].call = "save_conversation" =>
            /\ Len(storage[i].messages) = storage[i].iterations + 2
            /\ storage[i].messages[1] = "user"
            /\ \A j \in 2 .. Len(storage[i].messages) : storage[i].messages[j] = "assistant"

\* C21: when the initial generation call fails, nothing is persisted for that
\* run: the storage sees neither save_diagram nor save_conversation, during the
\* run or after it.
C21_NothingStoredOnGenerationFailure ==
    (backend_failures > 0 /\ validations = <<>>) => storage = <<>>
C21_Witness ==
    /\ op.name = "api_generate_diagram"
    /\ pc = "responded"
    /\ backend_failures = 1
    /\ validations = <<>>
    /\ state.errors # <<>>
    /\ storage = <<>>

\* C22: every ValidationResult that validate returns, whatever the code and the
\* diagram type, has no errors when it is valid; suggestions are free either way.
C22_ValidHasNoErrors ==
    (op.name = "validate" /\ validation.valid) => validation.errors = <<>>
C22_Witness ==
    /\ op.name = "validate"
    /\ family = StrType("mermaid")
    /\ diagram_code = "graph TD\nA-->B"
    /\ validation.valid
    /\ validation.errors = <<>>

\* the code is empty or holds only blanks
Blank(code) == \A i \in 1 .. Len(code) : Char(code, i) \in Whitespace
\* the diagram_type argument names the family
IsFamily(diagram_type, name) ==
    \/ diagram_type.kind = "str" /\ Lower(diagram_type.value) = name
    \/ diagram_type = EnumType(name)
\* the diagram_type argument is a string naming no diagram family
UnrecognisedFamily(diagram_type) ==
    diagram_type.kind = "str" /\ Lower(diagram_type.value) \notin {"mermaid", "plantuml"}
\* the result reports an invalid diagram type and lists the available ones
ReportsInvalidType(r) ==
    /\ ~r.valid
    /\ \E i \in 1 .. Len(r.errors) : str_startswith(r.errors[i], "Invalid diagram type")
    /\ \E i \in 1 .. Len(r.suggestions) :
          /\ str_contains(r.suggestions[i], "mermaid")
          /\ str_contains(r.suggestions[i], "plantuml")
\* the first token of the code, as written
Declaration(code) == IF Blank(code) THEN "" ELSE str_split_ws(code)[1]

\* C23 as stated: validate returns a ValidationResult and never raises; an
\* unrecognised family string yields an invalid result with an 'Invalid diagram
\* type' error and a suggestion listing the available types, and empty or
\* whitespace-only code yields an invalid result with an 'Empty diagram code'
\* error.
C23_Original ==
    op.name = "validate" =>
        /\ "raised" \notin DOMAIN validation
        /\ (UnrecognisedFamily(family) => ReportsInvalidType(validation))
        /\ (Blank(diagram_code) =>
               /\ ~validation.valid
               /\ \E i \in 1 .. Len(validation.errors) :
                     validation.errors[i] = "Empty diagram code")

\* C23, amended: validate returns a ValidationResult and never raises; empty or
\* whitespace-only code yields an invalid result whose only error is 'Empty
\* diagram code', whatever the diagram type; an unrecognised family string
\* with code that is not blank yields an invalid result with an 'Invalid
\* diagram type' error and a suggestion listing the available types.
C23_EmptinessBeforeType ==
    op.name = "validate" =>
        /\ "raised" \notin DOMAIN validation
        /\ (Blank(diagram_code) =>
               /\ ~validation.valid
               /\ validation.errors = <<"Empty diagram code">>)
        /\ (UnrecognisedFamily(family) /\ ~Blank(diagram_code) =>
               ReportsInvalidType(validation))
C23_Witness ==
    /\ op.name = "validate"
    /\ family = StrType("unknown")
    /\ Blank(diagram_code)
    /\ diagram_code # ""
    /\ validation = ValidationResult(FALSE, <<"Empty diagram code">>, <<>>)

\* C24: cleaning is idempotent: _clean_mermaid_code applied to its own output
\* returns it unchanged, and so does _clean_plantuml_code, also for code with
\* several trailing statement terminators or trailing blanks on a line.
C24_CleaningIdempotent ==
    [][/\ (op.name = "_clean_mermaid_code" /\ op'.name = "_clean_mermaid_code" =>
              diagram_code' = diagram_code)
       /\ (op.name = "_clean_plantuml_code" /\ op'.name = "_clean_plantuml_code" =>
              diagram_code' = diagram_code)]_vars

\* C25: PlantUML text is accepted only when it ends with the end tag whose
\* suffix matches its start tag (@startuml with @enduml, @startmindmap with
\* @endmindmap, @startgantt with @endgantt); a well-formed mindmap enclosed in
\* @startmindmap ... @endmindmap is valid.
C25_MatchingEndTag ==
    LET start_line == Lower(str_split(str_strip(diagram_code), "\n")[1])
        \* the code ends with the end tag whose suffix is that of its start tag
        EndsWithMatchingTag ==
            \E suffix \in {"uml", "mindmap", "gantt"} :
                /\ str_contains(start_line, "@start" \o suffix)
                /\ str_endswith(str_strip(diagram_code), "@end" \o suffix)
        \* mindmaps with a root and children one level apart
        WellFormedMindmaps == {"@startmindmap\n* Root\n** Child 1\n** Child 2\n@endmindmap"}
    IN (op.name = "validate" /\ IsFamily(family, "plantuml")) =>
           /\ (validation.valid => EndsWithMatchingTag)
           /\ (diagram_code \in WellFormedMindmaps => validation.valid)

\* C26: a Mermaid diagram whose first token is sequenceDiagram and which has a
\* participant or actor declaration and a message line with an arrow token and
\* a colon-delimited label is valid; diagrams starting with classDiagram,
\* stateDiagram or erDiagram are valid when their minimum elements are present,
\* and none of the four is rejected for its declaration.
C26_CamelCaseDeclarations ==
    LET \* the lines after the declaration, stripped, blank and comment lines left out
        BodyLines == Tail(stripped_lines(str_strip(diagram_code)))
        SequenceElements ==
            /\ any(BodyLines, LAMBDA line :
                   str_startswith(line, "participant ") \/ str_startswith(line, "actor "))
            /\ any(BodyLines, LAMBDA line :
                   /\ \E arrow \in {"->", "-->", ">>"} : str_contains(line, arrow)
                   /\ str_contains(line, ":"))
        ClassElements == any(BodyLines, LAMBDA line : str_startswith(line, "class "))
        StateElements == any(BodyLines, LAMBDA line : str_contains(line, "-->"))
        ErElements ==
            any(BodyLines, LAMBDA line :
                \E rel \in {"||--o{", "||--|{", "}|--|{", "}o--o{"} : str_contains(line, rel))
        MinimumElements ==
            CASE Declaration(diagram_code) = "sequenceDiagram" -> SequenceElements
              [] Declaration(diagram_code) = "classDiagram" -> ClassElements
              [] Declaration(diagram_code) = "stateDiagram" -> StateElements
              [] Declaration(diagram_code) = "erDiagram" -> ErElements
              [] OTHER -> FALSE
    IN (/\ op.name = "validate"
        /\ IsFamily(family, "mermaid")
        /\ Declaration(diagram_code) \in
               {"sequenceDiagram", "classDiagram", "stateDiagram", "erDiagram"}) =>
           /\ \A i \in 1 .. Len(validation.errors) :
                 validation.errors[i] # "Invalid or missing diagram type declaration"
           /\ (MinimumElements => validation.valid)

\* C27: for Mermaid mindmaps, code with exactly one root-level node and no depth
\* jump greater than one level is valid; code with no root-level node and code
\* with several nodes at the root's indentation level are invalid, with error
\* messages that differ from each other; code with a depth jump greater than
\* one level is invalid.
C27_MindmapRoots ==
    LET \* the node lines of a mindmap: the lines after the declaration, with their
        \* indentation, blank and comment lines left out
        MindmapNodes(code) ==
            SelectSeq(Tail(str_split(str_strip(code), "\n")), LAMBDA line :
                str_strip(line) # "" /\ ~str_startswith(str_strip(line), "%"))
        Indent(line) == Len(line) - Len(str_lstrip(line, Whitespace))
        \* the nodes at the indentation level of the root, which is the first node
        RootLevelNodes(code) ==
            {i \in 1 .. Len(MindmapNodes(code)) :
                Indent(MindmapNodes(code)[i]) = Indent(MindmapNodes(code)[1])}
        \* a node more than one level of two blanks deeper than the node before it
        DepthJump(code) ==
            \E i \in 2 .. Len(MindmapNodes(code)) :
                Indent(MindmapNodes(code)[i]) > Indent(MindmapNodes(code)[i - 1]) + 2
    IN (/\ op.name = "validate"
        /\ IsFamily(family, "mermaid")
        /\ Declaration(diagram_code) = "mindmap") =>
           /\ (Cardinality(RootLevelNodes(diagram_code)) = 1 /\ ~DepthJump(diagram_code) =>
                  validation.valid)
           /\ (Cardinality(RootLevelNodes(diagram_code)) = 0 =>
                  /\ ~validation.valid
                  /\ \A other \in Codes :
                        (/\ Declaration(other) = "mindmap"
                         /\ Cardinality(RootLevelNodes(other)) > 1) =>
                            validate(other, family).errors # validation.errors)
           /\ (Cardinality(RootLevelNodes(diagram_code)) > 1 => ~validation.valid)
           /\ (DepthJump(diagram_code) => ~validation.valid)

\* C28: after any sequence of cache operations, get for a key returns the value
\* of the most recent set for that key if no invalidate or clear came after it
\* and the entry has not expired, and None otherwise; invalidate returns true
\* exactly when an entry for the key was stored, and clear returns the number
\* of entries it removed.
C28_CacheFollowsItsOperations ==
    [][\A i \in Callers :
          LET key == key_of(requests[i])
          IN /\ (op'.name = "get" /\ op'.arg = i) =>
                    op'.ret = IF key \in DOMAIN stored /\ ~Expired(stored[key], now)
                              THEN stored[key].value
                              ELSE "None"
             /\ (op'.name = "invalidate" /\ op'.arg = i) =>
                    /\ op'.ret = BoolStr(key \in Live(stored))
                    /\ key \notin DOMAIN cache'
             /\ op'.name = "clear" =>
                    /\ op'.ret = ToString(Cardinality(Live(stored)))
                    /\ DOMAIN cache' = {}]_vars
C28_Witness ==
    /\ op.name = "get"
    /\ op.arg = 1
    /\ requests[2].description = "  test diagram "
    /\ op.ret = Value(2)
    /\ stored[key_of(requests[1])].value = Value(2)
    /\ stored[key_of(requests[1])].timestamp > 0
    /\ stored[key_of(requests[1])].ttl = NoTtl

\* C29: get never returns an entry whose TTL has elapsed (current time >=
\* timestamp + ttl): it returns None and deletes the stored entry, so that an
\* invalidate for that key right after it returns false; an entry stored
\* without a TTL never expires.
C29_ExpiredEntriesGo ==
    [][\A i \in Callers :
          LET key == key_of(requests[i])
          IN /\ (/\ op'.name = "get" /\ op'.arg = i
                 /\ key \in Live(stored)
                 /\ stored[key].ttl # NoTtl
                 /\ now >= stored[key].timestamp + stored[key].ttl) =>
                    /\ op'.ret = "None"
                    /\ key \notin DOMAIN cache'
             /\ (/\ op.name = "get" /\ op.ret = "None"
                 /\ key_of(requests[op.arg]) = key
                 /\ op'.name = "invalidate" /\ op'.arg = i) =>
                    op'.ret = "false"
             /\ (/\ op'.name = "get" /\ op'.arg = i
                 /\ key \in DOMAIN stored
                 /\ stored[key].ttl = NoTtl) =>
                    op'.ret = stored[key].value]_vars
C29_Witness ==
    /\ op.name = "get"
    /\ op.ret = "None"
    /\ key_of(requests[op.arg]) \in DOMAIN stored
    /\ stored[key_of(requests[op.arg])].purged
    /\ now = stored[key_of(requests[op.arg])].timestamp + stored[key_of(requests[op.arg])].ttl
    /\ key_of(requests[op.arg]) \notin DOMAIN cache

\* C30: identical requests address the same cache entry, and requests that
\* differ in description, diagram type, RAG context or other generation
\* options, after trimming and lower-casing, address different entries: a value
\* stored for one request is never returned by get for a different request.
C30_RequestsKeptApart ==
    LET \* a request with its description and RAG context trimmed and its diagram
        \* type lower-cased
        Normalised(r) ==
            [description |-> str_strip(r.description),
             diagram_type |-> Lower(r.diagram_type),
             rag_context |-> str_strip(r.rag_context),
             kwargs |-> r.kwargs]
    IN \A i \in Callers, j \in Callers :
          /\ (Normalised(requests[i]) = Normalised(requests[j]) =>
                 key_of(requests[i]) = key_of(requests[j]))
          /\ (Normalised(requests[i]) # Normalised(requests[j]) =>
                 ~(op.name = "get" /\ op.arg = j /\ op.ret = Value(i)))

\* C31: a run cancelled while it is suspended in a backend call starts no
\* further fix iteration and no further backend call, and the storage is not
\* called for it: the cancellation step leaves the run cancelled with the
\* storage untouched, and no later step of the run changes its counters, its
\* state or the storage.
C31_CancelledRunStops ==
    [][/\ (op'.name = "cancel" =>
              /\ pc \in {"generating", "fixing"}
              /\ pc' = "cancelled"
              /\ storage' = storage
              /\ UNCHANGED <<state, attempts, backend_calls>>)
       /\ (pc = "cancelled" =>
              /\ pc' = "cancelled"
              /\ UNCHANGED <<state, attempts, backend_calls, storage, validations>>)
       /\ (pc' = "cancelled" => storage' = <<>>)]_vars
C31_Witness ==
    /\ pc = "cancelled"
    /\ op.name = "cancel"
    /\ state.iterations >= 1
    /\ state.code # <<>>
    /\ storage = <<>>

\* C32: the text returned by a fix call goes through the same extraction and
\* normalisation as the output of the initial generation before it is
\* validated again: whenever a run awaits the answer of a fix call, every
\* answer from which both paths take a candidate yields the same candidate
\* code on the fix path as it would as the initial answer.
C32_FixSharesExtraction ==
    pc = "fixing" =>
        \A r \in Responses :
            (_fix_diagram(r).raised = "" /\ _generate_with_llm(r).raised = "") =>
                with_code(state, _fix_diagram(r).content).code
                    = with_code(state, _generate_with_llm(r).content).code

C34_HalfOpenFailureOpens ==
    [][(op'.name \in {"record_failure", "cb_raise"} /\ breaker.state = "HALF_OPEN") =>
          /\ breaker'.state = "OPEN"
          /\ breaker'.last_failure_time = now
          /\ \A t \in now .. MaxTime :
                 t - now <= breaker'.half_open_timeout => ~can_execute(breaker', t).ret]_vars

\* C35: with several tasks sharing one breaker and interleaving where they
\* await the wrapped call, no failure report is lost: after N failures in a row
\* (no success in between, no gap longer than reset_timeout) failures = N; and
\* once N has reached failure_threshold every task is refused admission, with
\* the wrapped function not called, until half_open_timeout has passed.
C35_NoFailureLost ==
    /\ (streak > 0 => breaker.failures = streak)
    /\ (streak >= breaker.failure_threshold
            /\ now - breaker.last_failure_time <= breaker.half_open_timeout =>
            /\ \A t \in Tasks :
                   /\ ~wrapper_enter(breaker, now).invoked
                   /\ wrapper_enter(breaker, now).raised = "Circuit breaker is open"
            /\ (op.name = "cb_call" => op.ret = "Circuit breaker is open"))
C35_Witness ==
    /\ op.name = "cb_raise"
    /\ streak = 2
    /\ breaker.failures = 2
    /\ breaker.failure_threshold = 2
    /\ breaker.state = "OPEN"
    /\ \E t \in Tasks : cb_pc[t] = "running"

C37_ValidMeansLastValidation ==
    pc \in {"returned", "responded"} =>
        LET n == Len(validations)
            last == validate(Text(candidates[n]), EnumType(output.diagram_type))
        IN /\ output.valid <=>
                  (n > 0 /\ candidates[n] = output.code /\ last.valid /\ last.errors = <<>>)
           /\ (n > 0 => validations[n] = (last.errors = <<>>))
           /\ (backend_failures > 0 => ~output.valid)
           /\ (n > 0 => output.code = candidates[n])
           /\ (n = 0 => output.code = <<>>)
           /\ \A i \in 1 .. Len(storage) :
                  /\ storage[i].valid = output.valid
                  /\ storage[i].iterations = output.iterations
                  /\ storage[i].code = output.code
C37_Witness ==
    /\ pc = "responded"
    /\ output.valid
    /\ output.iterations >= 1
    /\ backend_failures = 0
    /\ Len(storage) = 3
    /\ output.code = candidates[Len(candidates)]

\* C38: in every reachable state of a breaker with failure_threshold >= 1 the
\* failure count is not negative, and a CLOSED breaker has a failure count
\* below failure_threshold: the breaker is never CLOSED with a count that has
\* reached the threshold.
C38_ClosedBelowThreshold ==
    breaker.failure_threshold >= 1 =>
        /\ breaker.failures >= 0
        /\ (breaker.state = "CLOSED" => breaker.failures < breaker.failure_threshold)
C38_Witness ==
    /\ breaker.state = "CLOSED"
    /\ breaker.failure_threshold = 2
    /\ breaker.failures = 1
    /\ op.name = "cb_raise"
    /\ breaker.last_failure_time > 0

\* C39: notes are only ever appended, in the order of the steps.  A run that
\* uses up its budget (every validation reports errors, no backend call fails)
\* ends with one "Attempt k: Still fixing errors" note for each k from 1 to
\* max_iterations, in increasing order, followed by exactly one "Failed to
\* generate valid diagram after max_iterations attempts" note; a run that ends
\* valid has the "Successfully fixed" note at most once and no "Failed to
\* generate" note.
C39_NotesTraceTheRun ==
    [][LET notes == state'.notes
           L == Len(notes)
           m == max_iterations
           Count(text) == Cardinality({i \in 1 .. L : notes[i].text = text})
           exhausted == /\ validations' # <<>>
                        /\ \A i \in 1 .. Len(validations') : ~validations'[i]
                        /\ backend_failures' = 0
       IN /\ Len(state.notes) <= L
          /\ SubSeq(notes, 1, Len(state.notes)) = state.notes
          /\ (pc' \in {"returned", "responded"} => output'.notes = notes)
          /\ (pc' \in {"returned", "raised", "responded"} /\ exhausted =>
                 /\ L >= m + 1
                 /\ \A k \in 1 .. m :
                        /\ notes[L - m - 1 + k].text = "Attempt: Still fixing errors"
                        /\ notes[L - m - 1 + k].n = k
                 /\ notes[L].text = "Failed to generate valid diagram after attempts"
                 /\ notes[L].n = m
                 /\ Count("Attempt: Still fixing errors") = m
                 /\ Count("Failed to generate valid diagram after attempts") = 1)
          /\ (pc' \in {"returned", "responded"} /\ output'.valid =>
                 /\ Count("Successfully fixed diagram issues") <= 1
                 /\ Count("Failed to generate valid diagram after attempts") = 0)]_vars
C39_Witness ==
    /\ pc = "returned"
    /\ max_iterations = 2
    /\ validations = <<FALSE, FALSE, FALSE>>
    /\ backend_failures = 0
    /\ Len(output.notes) = 4
    /\ output.notes[1].text = "Found relevant code context"
    /\ output.notes[4].text = "Failed to generate valid diagram after attempts"
    /\ output.notes[4].n = 2

====
